---- MODULE Spec2Model ----
(***************************************************************************)
(* Billing & eligibility engine of the energy plan advisor                 *)
(* (docs/js/calculator.js and the guaranteed-discount detector).           *)
(*                                                                         *)
(* JavaScript values are tagged records: a number carries its value in .n, *)
(* undefined / null / NaN carry only their tag, objects have t = "object". *)
(* Numbers are exact (binary floating-point rounding is not modelled) and  *)
(* every quantity has a fixed unit so that the divisions of the code are   *)
(* changes of unit:                                                        *)
(*   percentages        1/20 of a percentage point  (100 % = 2000)         *)
(*   usage / FiT rates  1/5 of a cent per kWh       (40.0 c = 200)         *)
(*   daily supply       cents per day                                      *)
(*   energy             kWh; a daily export in 1/91 kWh per day            *)
(*   membership fees    dollars                                            *)
(*   computed money     millionths of a dollar      (597.87 = 597870000)   *)
(***************************************************************************)
EXTENDS Integers, Sequences, FiniteSets, TLC

VARIABLES
    plansData,      \* calculateAndRankPlans: the caller's array of plans
    usagePattern,   \* the usage pattern handed to the engine
    idx,            \* calculateAndRankPlans: position of the for-of loop
    calculations,   \* calculateAndRankPlans: the local array being filled
    ranked,         \* calculateAndRankPlans: the returned array
    planData,       \* the plan of a single-plan call
    outcome,        \* the value returned by a single-plan call
    discounted,     \* the value returned by applyGuaranteedDiscount
    form,           \* the custom-plan fields of the comparison form
    solarFitTiers,  \* calculateDailySolarCredit: the tiers being walked
    totalCredit,    \* calculateDailySolarCredit: the credit so far
    remainingExport, \* calculateDailySolarCredit: the export not yet credited
    pc,             \* where the call stands
    apiPlan,        \* extractTariffPeriods: the plan of the retailer API
    sliders,        \* the values of the three percentage sliders
    changedInputId, \* the slider of the last input event
    changedValue,   \* the value the last input event gave that slider
    currentPage,    \* ui.js: the page of the ranking being shown
    allPlanCalculations, \* ui.js: the ranking handed to displayPlanCards
    planCards,      \* the plan cards in the plan-cards container
    appState,       \* app.js: currentPersona, isCustomized, customUsagePattern, energyPlans
    resultsTitle,   \* the persona the results title names
    loadingDisplay, \* style.display of #loading
    resultsDisplay, \* style.display of #results-section
    modalShown,     \* the customization modal is open
    displayed,      \* the ranking and persona last handed to displayPlanCards
    timers,         \* the handlers waiting in their setTimeout delay, oldest first
    lastClicked,    \* the persona of the last click on a persona button
    lastEvent,      \* the last event or resumption handled
    alert,          \* the last message of showError or showSuccess
    resumedKey      \* the personaKey argument of the handler that resumed last

\* the variables outside the engine's calls
enginePageVars == <<apiPlan>>

\* the variables of the settings form's sliders
sliderVars == <<sliders, changedInputId, changedValue>>

\* the pagination state of ui.js and the cards it shows
pagingVars == <<currentPage, allPlanCalculations, planCards>>

\* the state of the main page controller and of what it shows
appVars ==
    <<appState, resultsTitle, loadingDisplay, resultsDisplay, modalShown, displayed, timers,
      lastClicked, lastEvent, alert, resumedKey>>

pageVars == <<enginePageVars, sliderVars, pagingVars, appVars>>

vars == <<plansData, usagePattern, idx, calculations, ranked, planData, outcome, discounted, form,
         solarFitTiers, totalCredit, remainingExport, pc, apiPlan,
         sliders, changedInputId, changedValue, currentPage, allPlanCalculations, planCards,
         appState, resultsTitle, loadingDisplay, resultsDisplay, modalShown, displayed, timers,
         lastClicked, lastEvent, alert, resumedKey>>

----------------------------------------------------------------------------
(* JavaScript values and operators *)

Undefined == [t |-> "undefined"]
Null == [t |-> "null"]
NaN == [t |-> "NaN"]
Num(n) == [t |-> "number", n |-> n]
Str(s) == [t |-> "string", s |-> s]
Bool(b) == [t |-> "boolean", b |-> b]

IsNumber(x) == x.t = "number"

\* nothing outside the engine's calls has happened
SlidersIdle == sliders = Undefined /\ changedInputId = Undefined /\ changedValue = Undefined

\* let currentPage = 1; let allPlanCalculations = []; no card is shown
PagingIdle == currentPage = 1 /\ allPlanCalculations = <<>> /\ planCards = <<>>

\* the main page controller is not part of the run
AppIdle ==
    /\ appState = Undefined
    /\ resultsTitle = Undefined
    /\ loadingDisplay = "none"
    /\ resultsDisplay = "none"
    /\ modalShown = FALSE
    /\ displayed = Undefined
    /\ timers = <<>>
    /\ lastClicked = Undefined
    /\ lastEvent = "none"
    /\ alert = "none"
    /\ resumedKey = Undefined

PageIdle == apiPlan = Undefined /\ SlidersIdle /\ PagingIdle /\ AppIdle

\* an array with the elements of the sequence s
Arr(s) == [t |-> "array", a |-> s]

\* Array.isArray
IsArray(x) == x.t = "array"

\* if (x), !x, x && y: 0, NaN, null, undefined, false and '' are falsy;
\* objects and arrays (an empty one too) are truthy
Truthy(x) ==
    \/ x.t = "number" /\ x.n # 0
    \/ x.t = "boolean" /\ x.b
    \/ x.t = "string" /\ x.s # ""
    \/ x.t \in {"object", "array"}

\* x || y
JsOr(x, y) == IF Truthy(x) THEN x ELSE y

\* the numeric conversion of an arithmetic or relational operand
ToNumber(x) ==
    CASE x.t = "number" -> x
      [] x.t = "null" -> Num(0)
      [] OTHER -> NaN

JsAdd(a, b) ==
    LET x == ToNumber(a)
        y == ToNumber(b)
    IN IF IsNumber(x) /\ IsNumber(y) THEN Num(x.n + y.n) ELSE NaN

JsSub(a, b) ==
    LET x == ToNumber(a)
        y == ToNumber(b)
    IN IF IsNumber(x) /\ IsNumber(y) THEN Num(x.n - y.n) ELSE NaN

JsMul(a, b) ==
    LET x == ToNumber(a)
        y == ToNumber(b)
    IN IF IsNumber(x) /\ IsNumber(y) THEN Num(x.n * y.n) ELSE NaN

\* a comparison with NaN (or undefined) is false
JsLt(a, b) ==
    LET x == ToNumber(a)
        y == ToNumber(b)
    IN IsNumber(x) /\ IsNumber(y) /\ x.n < y.n

JsLe(a, b) ==
    LET x == ToNumber(a)
        y == ToNumber(b)
    IN IsNumber(x) /\ IsNumber(y) /\ x.n <= y.n

JsGt(a, b) == JsLt(b, a)

\* mutant of MathMax: the floor at the first argument is lost
MathMaxNoFloor(a, b) == ToNumber(b)

\* Math.max, Math.min: NaN if either argument converts to NaN
MathMax(a, b) ==
    LET x == ToNumber(a)
        y == ToNumber(b)
    IN IF IsNumber(x) /\ IsNumber(y) THEN (IF x.n >= y.n THEN x ELSE y) ELSE NaN

MathMin(a, b) ==
    LET x == ToNumber(a)
        y == ToNumber(b)
    IN IF IsNumber(x) /\ IsNumber(y) THEN (IF x.n <= y.n THEN x ELSE y) ELSE NaN

\* Math.abs
MathAbs(a) ==
    LET x == ToNumber(a)
    IN IF IsNumber(x) THEN (IF x.n < 0 THEN Num(0 - x.n) ELSE x) ELSE NaN

\* a change of unit: the number times k, NaN stays NaN
Scaled(a, k) == JsMul(a, Num(k))

\* Array.prototype.sort: stable; a comparator result of NaN counts as 0.
\* less[<<a, b>>] says that the comparator's result for (a, b) is negative.
RECURSIVE InsertSorted(_, _, _)
InsertSorted(less, x, s) ==
    IF s = <<>> THEN <<x>>
    ELSE IF less[<<x, s[Len(s)]>>] THEN Append(InsertSorted(less, x, SubSeq(s, 1, Len(s) - 1)), s[Len(s)])
    ELSE Append(s, x)

RECURSIVE ArraySort(_, _)
ArraySort(less, s) ==
    IF s = <<>> THEN <<>>
    ELSE InsertSorted(less, s[Len(s)], ArraySort(less, SubSeq(s, 1, Len(s) - 1)))

\* the elements of an array
Elements(s) == { s[i] : i \in 1..Len(s) }

\* the sequences over S of length at most n
RECURSIVE SeqsUpTo(_, _)
SeqsUpTo(S, n) ==
    IF n = 0 THEN {<<>>}
    ELSE LET shorter == SeqsUpTo(S, n - 1)
         IN shorter \cup { Append(q, x) : q \in { r \in shorter : Len(r) = n - 1 }, x \in S }

----------------------------------------------------------------------------
(* docs/js/calculator.js *)

DaysPerQuarter == 91

\* mutant of calculateSupplyCharge: a 90-day quarter
calculateSupplyCharge90(dailySupplyRate) ==
    Scaled(JsMul(dailySupplyRate, Num(90)), 10000)

\* (dailySupplyRate * 91) / 100, in millionths of a dollar
calculateSupplyCharge(dailySupplyRate) ==
    Scaled(JsMul(dailySupplyRate, Num(DaysPerQuarter)), 10000)

calculateMembershipFee(plan) ==
    IF Truthy(plan.membership_fee_quarterly)
    THEN Scaled(plan.membership_fee_quarterly, 1000000)
    ELSE IF Truthy(plan.fees) /\ Truthy(plan.fees.membership_fee)
              /\ plan.fees.membership_fee.feeTerm = "A"
              /\ Truthy(plan.fees.membership_fee.amount)
         THEN Scaled(plan.fees.membership_fee.amount, 250000)   \* amount / 4
         ELSE Num(0)

\* one rate bucket of calculateUsageCharge
UsageBucket(rate, consumption) ==
    IF Truthy(rate) /\ JsGt(consumption, Num(0))
    THEN JsMul(consumption, rate)      \* (consumption * rate) / 100
    ELSE Num(0)

\* mutant of calculateUsageCharge: a plan without a shoulder rate is charged
\* its peak rate on the shoulder share
calculateUsageChargeShoulderAtPeak(plan, netGridConsumption, peakPercent, shoulderPercent, offPeakPercent) ==
    LET peakConsumption == JsMul(netGridConsumption, peakPercent)
        shoulderConsumption == JsMul(netGridConsumption, shoulderPercent)
        offPeakConsumption == JsMul(netGridConsumption, offPeakPercent)
        shoulderRate == IF Truthy(plan.shoulder_cost) THEN plan.shoulder_cost ELSE plan.peak_cost
    IN JsAdd(JsAdd(JsAdd(Num(0),
                         UsageBucket(plan.peak_cost, peakConsumption)),
                   UsageBucket(shoulderRate, shoulderConsumption)),
             UsageBucket(plan.off_peak_cost, offPeakConsumption))

\* mutant of calculateUsageCharge: the peak and the off-peak rate change places
calculateUsageChargeRatesSwapped(plan, netGridConsumption, peakPercent, shoulderPercent, offPeakPercent) ==
    LET peakConsumption == JsMul(netGridConsumption, peakPercent)
        shoulderConsumption == JsMul(netGridConsumption, shoulderPercent)
        offPeakConsumption == JsMul(netGridConsumption, offPeakPercent)
    IN JsAdd(JsAdd(JsAdd(Num(0),
                         UsageBucket(plan.off_peak_cost, peakConsumption)),
                   UsageBucket(plan.shoulder_cost, shoulderConsumption)),
             UsageBucket(plan.peak_cost, offPeakConsumption))

calculateUsageCharge(plan, netGridConsumption, peakPercent, shoulderPercent, offPeakPercent) ==
    LET peakConsumption == JsMul(netGridConsumption, peakPercent)
        shoulderConsumption == JsMul(netGridConsumption, shoulderPercent)
        offPeakConsumption == JsMul(netGridConsumption, offPeakPercent)
    IN JsAdd(JsAdd(JsAdd(Num(0),
                         UsageBucket(plan.peak_cost, peakConsumption)),
                   UsageBucket(plan.shoulder_cost, shoulderConsumption)),
             UsageBucket(plan.off_peak_cost, offPeakConsumption))

\* processSolarFitData, inner loop: the tiers of one fit's singleTariffRates.
\* A tier keeps the two fields the calculation reads, rate and volume.
RECURSIVE SingleTariffTiers(_, _)
SingleTariffTiers(rates, k) ==
    IF k > Len(rates) THEN <<>>
    ELSE LET rateData == rates[k]
             rest == SingleTariffTiers(rates, k + 1)
         IN IF Truthy(rateData.unitPrice)
            THEN <<[rate |-> rateData.unitPrice,
                    volume |-> IF Truthy(rateData.volume) THEN rateData.volume ELSE Null]>> \o rest
            ELSE rest

\* processSolarFitData, outer loop from fit k on, processedRates so far
RECURSIVE ProcessFits(_, _, _)
ProcessFits(fits, k, processedRates) ==
    IF k > Len(fits) THEN processedRates
    ELSE LET fit == fits[k]
         IN IF fit.type = "G" THEN ProcessFits(fits, k + 1, processedRates)
            ELSE LET withRates ==
                         IF Truthy(fit.singleTariffRates) /\ IsArray(fit.singleTariffRates)
                         THEN processedRates \o SingleTariffTiers(fit.singleTariffRates.a, 1)
                         ELSE processedRates
                     withFallback ==
                         IF Truthy(fit.rate) /\ Len(withRates) = 0
                         THEN Append(withRates, [rate |-> fit.rate, volume |-> Null])
                         ELSE withRates
                 IN ProcessFits(fits, k + 1, withFallback)

\* mutant of VolumeBefore: a tier without volume sorts as volume 0
VolumeBeforeZero(a, b) ==
    /\ Truthy(b.volume)
    /\ (~Truthy(a.volume) \/ a.volume.n < b.volume.n)

\* (a.volume || Infinity) - (b.volume || Infinity) < 0; Infinity - Infinity is NaN
VolumeBefore(a, b) ==
    /\ Truthy(a.volume)
    /\ (~Truthy(b.volume) \/ a.volume.n < b.volume.n)

\* processedRates.sort((a, b) => (a.volume || Infinity) - (b.volume || Infinity))
SortByVolume(processedRates) ==
    ArraySort([p \in Elements(processedRates) \X Elements(processedRates) |->
                  VolumeBefore(p[1], p[2])],
              processedRates)

processSolarFitData(fitData) ==
    IF ~IsArray(fitData) THEN <<>>
    ELSE SortByVolume(ProcessFits(fitData.a, 1, <<>>))

\* planData.raw_plan_data_complete?.main_api_response?.planData?.contract?.[0]?.solarFit
ContractSolarFit(plan) ==
    IF ~Truthy(plan.rawPlanData) THEN Undefined
    ELSE IF ~IsArray(plan.rawPlanData.contract) THEN Undefined
    ELSE IF Len(plan.rawPlanData.contract.a) = 0 THEN Undefined
    ELSE plan.rawPlanData.contract.a[1].solarFit

\* planData.raw_plan_data_complete?.main_api_response?.planData?.solarFeedInTariff
PlanSolarFeedInTariff(plan) ==
    IF ~Truthy(plan.rawPlanData) THEN Undefined
    ELSE plan.rawPlanData.solarFeedInTariff

\* processSolarFitData throws a TypeError: a null entry of fitData
\* (fit.type), or a null entry of the singleTariffRates of an entry that is
\* not skipped (rateData.unitPrice)
processSolarFitDataThrows(fitData) ==
    /\ IsArray(fitData)
    /\ \E k \in 1..Len(fitData.a) :
          \/ fitData.a[k] = Null
          \/ /\ fitData.a[k].type # "G"
             /\ Truthy(fitData.a[k].singleTariffRates)
             /\ IsArray(fitData.a[k].singleTariffRates)
             /\ \E j \in 1..Len(fitData.a[k].singleTariffRates.a) :
                   fitData.a[k].singleTariffRates.a[j] = Null

\* first try: the solarFit of the first contract
FirstTry(plan) ==
    IF Truthy(ContractSolarFit(plan)) THEN processSolarFitData(ContractSolarFit(plan)) ELSE <<>>

\* second try: solarFeedInTariff, when the first try found no rate
SecondTry(plan, solarFitRates) ==
    IF Len(solarFitRates) = 0 /\ Truthy(PlanSolarFeedInTariff(plan))
    THEN processSolarFitData(PlanSolarFeedInTariff(plan))
    ELSE solarFitRates

\* fallback: the simple rate, when no rate has been found
SimpleRateFallback(plan, solarFitRates) ==
    IF Len(solarFitRates) = 0 /\ Truthy(plan.solar_feed_in_rate_r)
    THEN <<[rate |-> plan.solar_feed_in_rate_r, volume |-> Null]>>
    ELSE solarFitRates

\* extractSolarFitRates throws: in the first try, or in the second when it is made
extractSolarFitRatesThrows(plan) ==
    IF Truthy(ContractSolarFit(plan)) /\ processSolarFitDataThrows(ContractSolarFit(plan))
    THEN TRUE
    ELSE /\ Len(FirstTry(plan)) = 0
         /\ Truthy(PlanSolarFeedInTariff(plan))
         /\ processSolarFitDataThrows(PlanSolarFeedInTariff(plan))

extractSolarFitRates(plan) == SimpleRateFallback(plan, SecondTry(plan, FirstTry(plan)))

\* mutant of TierLimit: the volume of the tier is not looked at
TierLimitUnbounded(tier, remaining) == remaining

\* tier.volume || remainingExport, the volume in kWh per day
TierLimit(tier, remaining) ==
    IF Truthy(tier.volume) THEN Scaled(tier.volume, DaysPerQuarter) ELSE remaining

\* calculateDailySolarCredit, the loop from tier k on.  The export is in
\* 1/91 kWh per day and the credit in 1/91 millionths of a dollar per day.
RECURSIVE DailyCreditLoop(_, _, _, _)
DailyCreditLoop(tiers, k, credit, remaining) ==
    IF k > Len(tiers) \/ JsLe(remaining, Num(0)) THEN credit
    ELSE LET tier == tiers[k]
             tierLimit == TierLimit(tier, remaining)
             tierExport == MathMin(remaining, tierLimit)
             tierCredit == Scaled(JsMul(tierExport, tier.rate), 2000)   \* (tierExport * rate) / 100
         IN DailyCreditLoop(tiers, k + 1, JsAdd(credit, tierCredit),
                            JsSub(remaining, tierExport))

calculateDailySolarCredit(dailyExportKwh, tiers) ==
    IF JsLe(dailyExportKwh, Num(0)) \/ Len(tiers) = 0 THEN Num(0)
    ELSE DailyCreditLoop(tiers, 1, Num(0), dailyExportKwh)

\* the credit of calculateTieredSolarCredit once the rates are extracted;
\* solarExported / 91 is the export in 1/91 kWh, dailySolarCredit * 91 the
\* credit in 1/91 of a millionth
QuarterlyCredit(solarExported, solarFitData) ==
    IF Len(solarFitData) = 0 THEN Num(0)
    ELSE calculateDailySolarCredit(ToNumber(solarExported), solarFitData)

\* calculateTieredSolarCredit throws: the rates are extracted only for a
\* positive export
calculateTieredSolarCreditThrows(plan, solarExported) ==
    ~JsLe(solarExported, Num(0)) /\ extractSolarFitRatesThrows(plan)

calculateTieredSolarCredit(plan, solarExported) ==
    IF JsLe(solarExported, Num(0)) THEN Num(0)
    ELSE QuarterlyCredit(solarExported, extractSolarFitRates(plan))

\* the destructuring default: solarExport = 0 when the field is undefined
SolarExportOf(usage) ==
    IF usage.solarExport = Undefined THEN Num(0) ELSE usage.solarExport

\* x === 0
IsZero(x) == x.t = "number" /\ x.n = 0

\* the checks of validateInputs after the one on quarterlyConsumption
ValidSplitAndExport(usage) ==
    LET totalPercent == JsAdd(JsAdd(usage.peakPercent, usage.shoulderPercent), usage.offPeakPercent)
    IN /\ ~(\/ JsLt(usage.peakPercent, Num(0))
             \/ JsLt(usage.shoulderPercent, Num(0))
             \/ JsLt(usage.offPeakPercent, Num(0)))
       /\ ~JsLt(SolarExportOf(usage), Num(0))
       /\ ~JsGt(MathAbs(JsSub(totalPercent, Num(2000))), Num(2))    \* |total - 100| > 0.1
       /\ ~(IsZero(usage.peakPercent) /\ IsZero(usage.shoulderPercent) /\ IsZero(usage.offPeakPercent))

\* mutant of validateInputs: only a negative consumption is rejected
validateInputsZeroConsumption(usage) ==
    ~JsLt(usage.quarterlyConsumption, Num(0)) /\ ValidSplitAndExport(usage)

\* mutant of validateInputs: the unusually high export is rejected, not only warned about
validateInputsRejectHighExport(usage) ==
    /\ ~JsLe(usage.quarterlyConsumption, Num(0))
    /\ ValidSplitAndExport(usage)
    /\ ~JsGt(SolarExportOf(usage), Scaled(usage.quarterlyConsumption, 2))

validateInputs(usage) ==
    /\ ~JsLe(usage.quarterlyConsumption, Num(0))
    /\ ValidSplitAndExport(usage)
    \* solarExport > quarterlyConsumption * 2 only logs a warning

\* hasDemandCharge: some tariffPeriod of the contract has a non-empty demandCharge
TariffPeriodHasDemand(tariffPeriod) ==
    Truthy(tariffPeriod.demandCharge) /\ IsArray(tariffPeriod.demandCharge)
        /\ Len(tariffPeriod.demandCharge.a) > 0

ContractHasDemand(contract) ==
    /\ Truthy(contract.tariffPeriod)
    /\ \E k \in 1..Len(contract.tariffPeriod.a) : TariffPeriodHasDemand(contract.tariffPeriod.a[k])

\* mutant of hasDemandCharge: only the first tariff period of the first contract is read
hasDemandChargeFirstPeriod(plan) ==
    /\ Truthy(plan.rawPlanData)
    /\ IsArray(plan.rawPlanData.contract)
    /\ Len(plan.rawPlanData.contract.a) > 0
    /\ Truthy(plan.rawPlanData.contract.a[1].tariffPeriod)
    /\ Len(plan.rawPlanData.contract.a[1].tariffPeriod.a) > 0
    /\ TariffPeriodHasDemand(plan.rawPlanData.contract.a[1].tariffPeriod.a[1])

hasDemandCharge(plan) ==
    IF ~Truthy(plan.rawPlanData) \/ ~Truthy(plan.rawPlanData.contract) THEN FALSE
    ELSE IF ~IsArray(plan.rawPlanData.contract) THEN FALSE     \* for-of throws, the catch returns false
    ELSE \E k \in 1..Len(plan.rawPlanData.contract.a) : ContractHasDemand(plan.rawPlanData.contract.a[k])

\* block.name?.toLowerCase().includes('shoulder'), for the names the model uses
NameIncludesShoulder(name) ==
    name.t = "string" /\ name.s \in {"Shoulder", "shoulder", "Off-Peak/Shoulder"}

\* detailedBlocks.some(block => block.time_of_use_period === 'S' || ...) from
\* block k on: "found", "none", or "throw" when a null block is read before
\* a shoulder block is found
RECURSIVE ShoulderBlockScan(_, _)
ShoulderBlockScan(detailedBlocks, k) ==
    IF k > Len(detailedBlocks) THEN "none"
    ELSE IF detailedBlocks[k] = Null THEN "throw"
    ELSE IF detailedBlocks[k].time_of_use_period = "S" \/ NameIncludesShoulder(detailedBlocks[k].name)
         THEN "found"
    ELSE ShoulderBlockScan(detailedBlocks, k + 1)

\* planData.detailed_time_blocks || []
DetailedBlocks(plan) ==
    IF Truthy(plan.detailed_time_blocks) THEN plan.detailed_time_blocks.a ELSE <<>>

\* mutant of hasShoulderBlock: only the period code is looked at
hasShoulderBlockByCode(plan) ==
    \E k \in 1..Len(DetailedBlocks(plan)) :
        DetailedBlocks(plan)[k] # Null /\ DetailedBlocks(plan)[k].time_of_use_period = "S"

hasShoulderBlock(plan) == ShoulderBlockScan(DetailedBlocks(plan), 1) = "found"

\* mutant of InvalidRequiredRates: only missing and zero rates are caught
InvalidRequiredRatesFalsy(plan) ==
    ~Truthy(plan.peak_cost) \/ ~Truthy(plan.off_peak_cost)

\* !peakRate || !offPeakRate || peakRate <= 0 || offPeakRate <= 0
InvalidRequiredRates(plan) ==
    \/ ~Truthy(plan.peak_cost)
    \/ ~Truthy(plan.off_peak_cost)
    \/ JsLe(plan.peak_cost, Num(0))
    \/ JsLe(plan.off_peak_cost, Num(0))

\* shoulderRate !== null && shoulderRate !== undefined && shoulderRate <= 0
ShoulderRateSuspect(plan) ==
    /\ plan.shoulder_cost # Null
    /\ plan.shoulder_cost # Undefined
    /\ JsLe(plan.shoulder_cost, Num(0))

\* shoulder rate exists but is zero (or negative) although a shoulder period exists
SuspiciousShoulder(plan) ==
    ShoulderRateSuspect(plan) /\ hasShoulderBlock(plan)

\* shouldDisqualifyPlan throws (a TypeError on a null time block) instead of returning
shouldDisqualifyPlanThrows(plan) ==
    /\ ~hasDemandCharge(plan)
    /\ ~InvalidRequiredRates(plan)
    /\ ShoulderRateSuspect(plan)
    /\ ShoulderBlockScan(DetailedBlocks(plan), 1) = "throw"

shouldDisqualifyPlan(plan) ==
    \/ hasDemandCharge(plan)
    \/ InvalidRequiredRates(plan)
    \/ SuspiciousShoulder(plan)

\* mutant of calculatePlanCost: the usage charge is taken on the consumption
\* less the solar export
calculatePlanCostNetOfExport(plan, usage) ==
    IF ~validateInputs(usage) THEN Null
    ELSE IF calculateTieredSolarCreditThrows(plan, SolarExportOf(usage)) THEN Null
    ELSE [t |-> "object",
          totalCost |-> Num(0),
          breakdown |-> [supplyCharge |-> calculateSupplyCharge(plan.daily_supply_charge),
                         usageCharge |-> calculateUsageCharge(plan,
                                             JsSub(usage.quarterlyConsumption, SolarExportOf(usage)),
                                             usage.peakPercent, usage.shoulderPercent, usage.offPeakPercent),
                         membershipFee |-> calculateMembershipFee(plan),
                         solarCredit |-> calculateTieredSolarCredit(plan, SolarExportOf(usage)),
                         netGridConsumption |-> JsSub(usage.quarterlyConsumption, SolarExportOf(usage)),
                         solarExported |-> SolarExportOf(usage)],
          planData |-> plan]

\* the object calculatePlanCost returns
CostBreakdown(plan, supplyCharge, usageCharge, membershipFee, solarCredit, netGridConsumption, solarExported) ==
    [t |-> "object",
     totalCost |-> MathMax(Num(0),        \* finalBill
                           JsSub(JsAdd(JsAdd(supplyCharge, usageCharge), membershipFee), solarCredit)),
     breakdown |-> [supplyCharge |-> supplyCharge,
                    usageCharge |-> usageCharge,
                    membershipFee |-> membershipFee,
                    solarCredit |-> solarCredit,
                    netGridConsumption |-> netGridConsumption,
                    solarExported |-> solarExported],
     planData |-> plan]

calculatePlanCost(plan, usage) ==
    IF ~validateInputs(usage) THEN Null           \* throw, caught: return null
    ELSE IF calculateTieredSolarCreditThrows(plan, SolarExportOf(usage))
    THEN Null                                     \* TypeError, caught: return null
    ELSE CostBreakdown(plan,
                       calculateSupplyCharge(plan.daily_supply_charge),
                       calculateUsageCharge(plan, usage.quarterlyConsumption, usage.peakPercent,
                                            usage.shoulderPercent, usage.offPeakPercent),
                       calculateMembershipFee(plan),
                       calculateTieredSolarCredit(plan, SolarExportOf(usage)),
                       usage.quarterlyConsumption,
                       SolarExportOf(usage))

\* mutant of CheaperThan: b.totalCost - a.totalCost
CheaperThanReversed(a, b) == JsLt(JsSub(b.totalCost, a.totalCost), Num(0))

\* mutant of CheaperThan: equal totals count as out of order
CheaperOrEqual(a, b) == JsLe(JsSub(a.totalCost, b.totalCost), Num(0))

\* (a, b) => a.totalCost - b.totalCost is negative
CheaperThan(a, b) == JsLt(JsSub(a.totalCost, b.totalCost), Num(0))

----------------------------------------------------------------------------
(* The guaranteed-discount detector (unnamed/part_012) *)

\* plan?.raw_plan_data?.has_discounts
HasDiscounts(plan) ==
    IF Truthy(plan.raw_plan_data) THEN plan.raw_plan_data.has_discounts ELSE Undefined

\* the discountInfo pushed for one discount of a contract
DiscountInfo(discount) ==
    [percent |-> JsOr(discount.discountPercent, Num(0)),
     type |-> JsOr(discount.type, Str("")),
     category |-> JsOr(discount.category, Str("")),
     isGuaranteed |-> discount.type # Str("C")]

\* mutant of ConditionalOverride: a conditional discount changes nothing
ConditionalOverrideNone(result) == result

\* the override made when a discount of type 'C' is met
ConditionalOverride(result) ==
    [result EXCEPT !.hasGuaranteedDiscount = FALSE,
                   !.guaranteedDiscountPercent = Num(0),
                   !.guaranteedQuarterlyCost = Null]

\* the inner loop: the discounts of one contract from the k-th on
RECURSIVE DiscountLoop(_, _, _)
DiscountLoop(discounts, k, result) ==
    IF k > Len(discounts) THEN result
    ELSE LET pushed == [result EXCEPT !.discountDetails = Append(@, DiscountInfo(discounts[k]))]
         IN DiscountLoop(discounts, k + 1,
                         IF discounts[k].type = Str("C") THEN ConditionalOverride(pushed) ELSE pushed)

\* the outer loop: the contracts from the k-th on
RECURSIVE ContractLoop(_, _, _)
ContractLoop(contractData, k, result) ==
    IF k > Len(contractData) THEN result
    ELSE ContractLoop(contractData, k + 1,
                      IF Truthy(contractData[k].discount)
                      THEN DiscountLoop(contractData[k].discount.a, 1, result)
                      ELSE result)

\* the primary method: the result after the PCR costs have been read.  The
\* percentage, ((noDiscounts - guaranteedDiscount) / noDiscounts) * 100, is
\* in 1/20 of a point; the figures of the model make the division exact.
PcrResult(plan, result) ==
    IF ~Truthy(plan.pcrCosts) THEN result
    ELSE LET noDiscounts == JsOr(plan.pcrCosts.noDiscounts, Num(0))
             allDiscounts == JsOr(plan.pcrCosts.allDiscounts, Num(0))
             guaranteedDiscount == JsOr(plan.pcrCosts.guaranteedDiscount, Num(0))
             isGuaranteed == allDiscounts = guaranteedDiscount /\ JsLt(allDiscounts, noDiscounts)
         IN IF isGuaranteed /\ JsGt(noDiscounts, Num(0))
            THEN [result EXCEPT
                    !.hasGuaranteedDiscount = TRUE,
                    !.guaranteedDiscountPercent =
                        Num(((noDiscounts.n - guaranteedDiscount.n) * 2000) \div noDiscounts.n),
                    !.guaranteedQuarterlyCost = guaranteedDiscount,
                    !.baseQuarterlyCost = noDiscounts]
            ELSE result

NoDiscountResult ==
    [hasGuaranteedDiscount |-> FALSE,
     guaranteedDiscountPercent |-> Num(0),
     guaranteedQuarterlyCost |-> Null,
     baseQuarterlyCost |-> Null,
     discountDetails |-> <<>>]

\* plan?.raw_plan_data_complete?.detailed_api_response?.data?.planData?.contract || []
DetailedContracts(plan) ==
    IF Truthy(plan.detailedContract) THEN plan.detailedContract.a ELSE <<>>

detectGuaranteedDiscount(plan) ==
    IF ~Truthy(HasDiscounts(plan)) THEN NoDiscountResult
    ELSE ContractLoop(DetailedContracts(plan), 1, PcrResult(plan, NoDiscountResult))

\* calculatedCost * (1 - percent / 100), the percentage in 1/20 of a point;
\* the product is formed in two parts to stay within the integers of the model
DiscountMultiplied(calculatedCost, percent) ==
    IF ~IsNumber(calculatedCost) \/ ~IsNumber(percent) THEN NaN
    ELSE Num((calculatedCost.n \div 2000) * (2000 - percent.n)
                + ((calculatedCost.n % 2000) * (2000 - percent.n)) \div 2000)

applyGuaranteedDiscount(plan, calculatedCost) ==
    LET discountInfo == detectGuaranteedDiscount(plan)
    IN IF ~discountInfo.hasGuaranteedDiscount
       THEN [finalCost |-> calculatedCost,
             discountApplied |-> FALSE,
             discountPercent |-> Num(0),
             savingsAmount |-> Num(0),
             discountDetails |-> discountInfo.discountDetails]
       ELSE LET finalCost == DiscountMultiplied(calculatedCost, discountInfo.guaranteedDiscountPercent)
            IN [finalCost |-> finalCost,
                discountApplied |-> TRUE,
                discountPercent |-> discountInfo.guaranteedDiscountPercent,
                savingsAmount |-> JsSub(calculatedCost, finalCost),
                discountDetails |-> discountInfo.discountDetails]

----------------------------------------------------------------------------
(* Inputs *)

\* a structured discount term of a contract
DiscountTerms ==
    { [t |-> "object", type |-> ty, category |-> cat, discountPercent |-> Num(200)] :
        ty \in {Str("C"), Str("D")}, cat \in {Str("Conditional"), Str("Guaranteed")} }

\* the most discount terms listed in one contract
MaxTerms == 2

DiscountContract(discount) == [t |-> "object", discount |-> discount]

\* the contract array of the detailed API response
DetailedContractVariants ==
    {Undefined, Arr(<<>>), Arr(<<DiscountContract(Undefined)>>)}
      \cup { Arr(<<DiscountContract(Arr(terms))>>) : terms \in SeqsUpTo(DiscountTerms, MaxTerms) }
      \cup { Arr(<<DiscountContract(Arr(<<a>>)), DiscountContract(Arr(<<b>>))>>) :
                a \in DiscountTerms, b \in DiscountTerms }

\* the quarterly reference costs of the PCR, in dollars; a figure may be missing
PcrVariants ==
    {Undefined}
      \cup { [t |-> "object", noDiscounts |-> no, allDiscounts |-> all, guaranteedDiscount |-> g] :
                no \in {Undefined, Num(0), Num(400), Num(500)},
                all \in {Undefined, Num(0), Num(300), Num(400), Num(500)},
                g \in {Undefined, Num(0), Num(300), Num(400), Num(500)} }

DiscountPlans ==
    { [t |-> "object", raw_plan_data |-> raw, pcrCosts |-> pcr, detailedContract |-> contracts] :
        raw \in {Undefined, [t |-> "object", has_discounts |-> Bool(TRUE)],
                 [t |-> "object", has_discounts |-> Bool(FALSE)]},
        pcr \in PcrVariants,
        contracts \in DetailedContractVariants }

NoFees == [t |-> "object", membership_fee |-> Undefined]
AnnualFee(amount) ==
    [t |-> "object", membership_fee |-> [t |-> "object", feeTerm |-> "A", amount |-> Num(amount)]]

\* a solar feed-in entry of the retailer with the given [unitPrice, volume] rates
RetailerFit(rates) ==
    [t |-> "object", type |-> "R", singleTariffRates |-> Arr(rates), rate |-> Undefined]

\* the API's planData with one contract
RawPlan(solarFit, tariffPeriod) ==
    [t |-> "object",
     contract |-> Arr(<<[t |-> "object", solarFit |-> solarFit, tariffPeriod |-> tariffPeriod]>>),
     solarFeedInTariff |-> Undefined]

\* {10 c for the first 10 kWh/day, 5 c for the rest}, as the API lists it
TwoTierFit ==
    Arr(<<RetailerFit(<<[unitPrice |-> Num(50), volume |-> Num(10)],
                        [unitPrice |-> Num(25), volume |-> Undefined]>>)>>)

\* the same schedule listed with its unbounded tier first
TwoTierFitReversed ==
    Arr(<<RetailerFit(<<[unitPrice |-> Num(25), volume |-> Undefined],
                        [unitPrice |-> Num(50), volume |-> Num(10)]>>)>>)

NoDemandPeriod == Arr(<<[t |-> "object", demandCharge |-> Undefined]>>)

BasePlan ==
    [t |-> "object",
     plan_name |-> 0,
     peak_cost |-> Num(200),
     shoulder_cost |-> Num(136),
     off_peak_cost |-> Num(136),
     daily_supply_charge |-> Num(105),
     membership_fee_quarterly |-> Undefined,
     membership_fee_annual |-> Undefined,
     fees |-> NoFees,
     solar_feed_in_rate_r |-> Undefined,
     rawPlanData |-> Undefined,
     detailed_time_blocks |-> Undefined]

\* the solar feed-in data of a plan: (solar_feed_in_rate_r, rawPlanData)
SolarVariants ==
    { <<Undefined, Undefined>>,
      <<Num(25), Undefined>>,
      <<Num(100), RawPlan(Undefined, NoDemandPeriod)>>,
      <<Num(25), RawPlan(TwoTierFit, NoDemandPeriod)>>,
      <<Undefined, RawPlan(TwoTierFitReversed, NoDemandPeriod)>> }

\* the membership data of a plan: (membership_fee_quarterly, fees)
MembershipVariants ==
    { <<Undefined, NoFees>>, <<Num(20), NoFees>>, <<Undefined, AnnualFee(80)>>, <<Undefined, Undefined>> }

CalcPlans ==
    { [BasePlan EXCEPT !.peak_cost = r[1], !.shoulder_cost = r[2], !.off_peak_cost = r[3],
                       !.daily_supply_charge = d,
                       !.membership_fee_quarterly = m[1], !.fees = m[2],
                       !.solar_feed_in_rate_r = f[1], !.rawPlanData = f[2]] :
        r \in {Undefined, Num(200)} \X {Undefined, Null, Num(0), Num(136), Num(250)} \X {Null, Num(100), Num(136)},
        d \in {Num(105), Num(130)},
        m \in MembershipVariants,
        f \in SolarVariants }

Usage(consumption, percents, export) ==
    [quarterlyConsumption |-> Num(consumption),
     peakPercent |-> Num(percents[1]),
     shoulderPercent |-> Num(percents[2]),
     offPeakPercent |-> Num(percents[3]),
     solarExport |-> export]

\* percentage splits in 1/20 of a point: the sums are 100, 99.95, 100.05,
\* 99.85, 100.15, 150, 0 and 100 with a negative share
PercentSplits ==
    { <<1500, 160, 340>>, <<2000, 0, 0>>, <<800, 200, 1000>>, <<0, 0, 2000>>, <<800, 1200, 0>>,
      <<1499, 160, 340>>, <<1500, 161, 340>>, <<1497, 160, 340>>, <<1500, 160, 343>>,
      <<1000, 1000, 1000>>, <<0, 0, 0>>, <<0 - 100, 1100, 1000>> }

CalcUsages ==
    { Usage(c, p, e) :
        c \in {0 - 10, 0, 1365},
        p \in PercentSplits,
        e \in {Undefined, Num(0), Num(0 - 1), Num(1365), Num(5000)} }

\* tariff periods of a contract, the k-th with a demand charge (none for k = 0)
DemandPeriods(k) ==
    Arr([i \in 1..2 |->
           [t |-> "object",
            demandCharge |-> IF i = k THEN Arr(<<[t |-> "object"]>>) ELSE Arr(<<>>)]])

\* the API's planData with two contracts, the c-th holding the periods
TwoContracts(c, periods) ==
    [t |-> "object",
     contract |-> Arr([i \in 1..2 |->
                         [t |-> "object", solarFit |-> Undefined,
                          tariffPeriod |-> IF i = c THEN periods ELSE Undefined]]),
     solarFeedInTariff |-> Undefined]

\* raw plan data without a demand charge
NoDemandRaw ==
    { Undefined,
      [t |-> "object", contract |-> Undefined, solarFeedInTariff |-> Undefined],
      RawPlan(Undefined, NoDemandPeriod),
      TwoContracts(1, DemandPeriods(0)) }

\* raw plan data with a demand charge in some tariff period of some contract
DemandRaw ==
    { TwoContracts(c, DemandPeriods(k)) : c \in 1..2, k \in 1..2 }

Block(period, name) == [t |-> "object", time_of_use_period |-> period, name |-> name]

\* time-block metadata without a shoulder window
NoShoulderBlocks ==
    { Undefined,
      Arr(<<>>),
      Arr(<<Block("P", Str("Peak")), Block("OP", Str("Off Peak"))>>),
      Arr(<<Block("P", Undefined), Block("OP", Undefined)>>) }

\* time-block metadata that declares a shoulder window, by code or by name
ShoulderBlocks ==
    { Arr(<<Block("P", Str("Peak")), Block("S", Str("Mid")), Block("OP", Str("Off Peak"))>>),
      Arr(<<Block("P", Undefined), Block("S", Undefined)>>),
      Arr(<<Block("P", Str("Peak")), Block("OP", Str("Off-Peak/Shoulder"))>>),
      Arr(<<Block("S", Str("Shoulder")), Null>>) }

\* time-block metadata with a null entry ahead of any shoulder window
MalformedBlocks ==
    { Arr(<<Null>>), Arr(<<Block("P", Str("Peak")), Null, Block("S", Str("Shoulder"))>>) }

RequiredRates == {Undefined, Null, Num(0), Num(0 - 5), Num(200)}

EligibilityPlans ==
    { [BasePlan EXCEPT !.peak_cost = p, !.off_peak_cost = o, !.shoulder_cost = sh,
                       !.detailed_time_blocks = b, !.rawPlanData = raw] :
        p \in RequiredRates,
        o \in RequiredRates,
        sh \in {Undefined, Null, Num(0), Num(0 - 3), Num(136)},
        b \in NoShoulderBlocks \cup ShoulderBlocks \cup MalformedBlocks,
        raw \in NoDemandRaw \cup DemandRaw }

\* the plans of a ranking: plan n is BasePlan with the changes listed
RankPlan(n) ==
    LET P == [BasePlan EXCEPT !.plan_name = n]
    IN CASE n = 1 -> P
         [] n = 2 -> P                                           \* the same price as plan 1
         [] n = 3 -> [P EXCEPT !.peak_cost = Num(150), !.shoulder_cost = Num(100),
                               !.off_peak_cost = Num(100)]
         [] n = 4 -> [P EXCEPT !.peak_cost = Num(50), !.shoulder_cost = Num(20),
                               !.off_peak_cost = Num(20), !.daily_supply_charge = Num(10),
                               !.rawPlanData = TwoContracts(1, DemandPeriods(1))]
         [] n = 5 -> [P EXCEPT !.peak_cost = Num(50), !.rawPlanData = TwoContracts(2, DemandPeriods(2))]
         [] n = 6 -> [P EXCEPT !.peak_cost = Null, !.detailed_time_blocks = Arr(<<Null>>),
                               !.shoulder_cost = Num(0)]
         [] n = 7 -> [P EXCEPT !.off_peak_cost = Num(0)]
         [] n = 8 -> [P EXCEPT !.peak_cost = Num(0 - 5)]
         [] n = 9 -> [P EXCEPT !.off_peak_cost = Undefined, !.peak_cost = Num(10)]
         [] n = 10 -> [P EXCEPT !.shoulder_cost = Num(0),
                                !.detailed_time_blocks =
                                    Arr(<<Block("P", Str("Peak")), Block("S", Str("Shoulder"))>>)]
         [] n = 11 -> [P EXCEPT !.shoulder_cost = Num(0), !.peak_cost = Num(220)]
         [] n = 12 -> [P EXCEPT !.shoulder_cost = Null, !.off_peak_cost = Num(100),
                                !.solar_feed_in_rate_r = Num(25)]
         [] n = 13 -> [P EXCEPT !.rawPlanData = RawPlan(TwoTierFitReversed, NoDemandPeriod),
                                !.membership_fee_quarterly = Num(20)]
         [] n = 14 -> [P EXCEPT !.shoulder_cost = Num(0), !.detailed_time_blocks = Arr(<<Null>>)]
         [] OTHER -> [P EXCEPT !.peak_cost = Num(100), !.solar_feed_in_rate_r = Num(25),
                               !.rawPlanData = RawPlan(Arr(<<Null>>), NoDemandPeriod)]

RankPlans == { RankPlan(n) : n \in 1..15 }

\* the plans of RankPlans that carry a demand charge
DemandChargePlans == { RankPlan(4), RankPlan(5) }

RankUsages ==
    { Usage(1365, <<1500, 160, 340>>, Num(0)),
      Usage(1365, <<800, 200, 1000>>, Num(1365)),
      Usage(1365, <<1000, 1000, 1000>>, Num(0)) }

\* the longest array of plans handed to calculateAndRankPlans
MaxPlans == 3

----------------------------------------------------------------------------
(* One call of calculatePlanCost *)

InitCalc ==
    /\ planData \in CalcPlans
    /\ usagePattern \in CalcUsages
    /\ outcome = Undefined
    /\ pc = "call"
    /\ plansData = <<>>
    /\ idx = 0
    /\ calculations = <<>>
    /\ ranked = <<>>
    /\ discounted = Undefined
    /\ form = Undefined
    /\ PageIdle
    /\ solarFitTiers = <<>>
    /\ totalCredit = Undefined
    /\ remainingExport = Undefined

\* validateInputs fails: the throw is caught and null is returned
CalcReject ==
    /\ pc = "call"
    /\ calculatePlanCost(planData, usagePattern) = Null
    /\ outcome' = Null
    /\ pc' = "done"
    /\ UNCHANGED <<pageVars, form, solarFitTiers, totalCredit, remainingExport, discounted, plansData, usagePattern, idx, calculations, ranked, planData>>

CalcReturn ==
    /\ pc = "call"
    /\ calculatePlanCost(planData, usagePattern) # Null
    /\ outcome' = calculatePlanCost(planData, usagePattern)
    /\ pc' = "done"
    /\ UNCHANGED <<pageVars, form, solarFitTiers, totalCredit, remainingExport, discounted, plansData, usagePattern, idx, calculations, ranked, planData>>

NextCalc == CalcReject \/ CalcReturn

SpecCalc == InitCalc /\ [][NextCalc]_vars

----------------------------------------------------------------------------
(* Claims about calculatePlanCost, checked under SpecCalc *)

Returned == pc = "done" /\ outcome # Null

\* the value of a number field of the usage pattern
Consumption == usagePattern.quarterlyConsumption.n
PeakShare == usagePattern.peakPercent.n
ShoulderShare == usagePattern.shoulderPercent.n
OffPeakShare == usagePattern.offPeakPercent.n
Export == IF usagePattern.solarExport = Undefined THEN 0 ELSE usagePattern.solarExport.n

\* supply + usage + membership - solar credit of the returned breakdown
BillBeforeFloor ==
    outcome.breakdown.supplyCharge.n + outcome.breakdown.usageCharge.n
        + outcome.breakdown.membershipFee.n - outcome.breakdown.solarCredit.n

\* C3: whenever calculatePlanCost returns a breakdown its totalCost is a
\* number >= 0, also when the solar credit exceeds the charges; a negative
\* bill is returned as zero.
C3_NonNegativeTotal ==
    Returned =>
        /\ IsNumber(outcome.totalCost)
        /\ outcome.totalCost.n >= 0
        /\ (BillBeforeFloor < 0 => outcome.totalCost.n = 0)

\* a returned breakdown whose solar credit exceeds supply + usage + membership
C3_Witness ==
    /\ Returned
    /\ BillBeforeFloor < 0
    /\ Export > 2 * Consumption
    /\ outcome.totalCost.n = 0

\* the plan and profile of the spec's concrete scenario
ScenarioPlan ==
    /\ planData.peak_cost = Num(200)
    /\ planData.shoulder_cost = Num(136)
    /\ planData.off_peak_cost = Num(136)
    /\ planData.daily_supply_charge = Num(105)
    /\ planData.membership_fee_quarterly = Undefined
    /\ planData.fees = NoFees
    /\ planData.solar_feed_in_rate_r = Undefined
    /\ planData.rawPlanData = Undefined

ScenarioUsage ==
    usagePattern = Usage(1365, <<1500, 160, 340>>, Num(0))

\* C4: totalCost = max(0, supplyCharge + usageCharge + membershipFee -
\* solarCredit) with supplyCharge = daily_supply_charge x 91 / 100; in the
\* scenario 1365 kWh split 75/8/17 at 40.0/27.2/27.2 c/kWh and 105 c/day,
\* no solar: supplyCharge 95.55, usageCharge 502.32, totalCost 597.87.
C4_TotalFormula ==
    Returned =>
        /\ IsNumber(outcome.totalCost)
        /\ outcome.totalCost.n = (IF BillBeforeFloor < 0 THEN 0 ELSE BillBeforeFloor)
        /\ outcome.breakdown.supplyCharge.n = planData.daily_supply_charge.n * 91 * 10000
        /\ (ScenarioPlan /\ ScenarioUsage =>
               /\ outcome.breakdown.supplyCharge.n = 95550000
               /\ outcome.breakdown.usageCharge.n = 502320000
               /\ outcome.totalCost.n = 597870000)

C4_Witness ==
    /\ Returned
    /\ ScenarioPlan
    /\ ScenarioUsage
    /\ outcome.totalCost.n = 597870000

\* what a bucket is to contribute: consumption x percent/100 x rate/100, and
\* nothing for an absent rate
BucketCharge(rate, share) ==
    IF IsNumber(rate) THEN Consumption * share * rate.n ELSE 0

\* C5: usageCharge is the sum over peak, shoulder and off-peak of
\* consumption x percent/100 x rate/100; a bucket whose rate is absent
\* (undefined, null, zero) or whose share is zero contributes nothing, so a
\* plan without a shoulder rate pays on its peak and off-peak shares only.
C5_UsageCharge ==
    Returned =>
        /\ IsNumber(outcome.breakdown.usageCharge)
        /\ outcome.breakdown.usageCharge.n =
               BucketCharge(planData.peak_cost, PeakShare)
                 + BucketCharge(planData.shoulder_cost, ShoulderShare)
                 + BucketCharge(planData.off_peak_cost, OffPeakShare)
        /\ (planData.shoulder_cost \in {Undefined, Null} =>
               outcome.breakdown.usageCharge.n =
                   BucketCharge(planData.peak_cost, PeakShare)
                     + BucketCharge(planData.off_peak_cost, OffPeakShare))

\* a two-rate plan charged for a profile with a shoulder share
C5_Witness ==
    /\ Returned
    /\ planData.shoulder_cost \in {Undefined, Null}
    /\ IsNumber(planData.peak_cost)
    /\ IsNumber(planData.off_peak_cost)
    /\ ShoulderShare > 0
    /\ PeakShare > 0
    /\ outcome.breakdown.usageCharge.n =
           Consumption * (PeakShare * planData.peak_cost.n + OffPeakShare * planData.off_peak_cost.n)

\* the percentages are non-negative, sum to 100 within 0.1 and are not all zero
SplitValid ==
    /\ PeakShare >= 0
    /\ ShoulderShare >= 0
    /\ OffPeakShare >= 0
    /\ PeakShare + ShoulderShare + OffPeakShare \in 1998..2002
    /\ ~(PeakShare = 0 /\ ShoulderShare = 0 /\ OffPeakShare = 0)

C7_AsClaimed ==
    (pc = "done" /\ Export > 2 * Consumption) => outcome = Null

\* C7 amended: a negative export is a validation failure, but an export of
\* more than twice the (positive) consumption is accepted: with a valid
\* split the breakdown is returned and credits the whole export.
C7_HighExportAccepted ==
    pc = "done" =>
        /\ (Export < 0 => outcome = Null)
        /\ (Export > 2 * Consumption /\ Consumption > 0 /\ SplitValid =>
               /\ outcome # Null
               /\ outcome.breakdown.solarExported = usagePattern.solarExport)

C7_Witness ==
    /\ Returned
    /\ Export > 2 * Consumption
    /\ outcome.breakdown.solarCredit.n > 0

\* the same usage pattern with another solar export
\* the splits of PercentSplits that sum to exactly 100 without a negative share
ExactSplits == { q \in PercentSplits : q[1] + q[2] + q[3] = 2000 /\ q[1] >= 0 /\ q[2] >= 0 /\ q[3] >= 0 }

\* the profile returned for sums to exactly 100
SplitExact ==
    <<usagePattern.peakPercent.n, usagePattern.shoulderPercent.n, usagePattern.offPeakPercent.n>> \in ExactSplits

\* the exact splits with a higher peakPercent than the profile's
HigherPeakSplits == { q \in ExactSplits : q[1] > usagePattern.peakPercent.n }

\* the usageCharge of the plan for the profile's consumption split as q
UsageChargeAt(q) ==
    calculateUsageCharge(planData, usagePattern.quarterlyConsumption, Num(q[1]), Num(q[2]), Num(q[3]))

\* peakRate >= offPeakRate, both being numbers
PeakNotBelowOffPeak ==
    IsNumber(planData.peak_cost) /\ IsNumber(planData.off_peak_cost)
        /\ planData.peak_cost.n >= planData.off_peak_cost.n

\* the shoulder rate is charged and is above the peak rate
ShoulderAbovePeak ==
    Truthy(planData.shoulder_cost) /\ planData.shoulder_cost.n > planData.peak_cost.n

\* C22 as stated: with peakRate >= offPeakRate, any valid profile of the
\* same consumption with a higher peakPercent has a usageCharge that is not
\* lower.
C22_AsClaimed ==
    (Returned /\ SplitExact /\ PeakNotBelowOffPeak) =>
        \A q \in HigherPeakSplits : UsageChargeAt(q).n >= outcome.breakdown.usageCharge.n

\* C22: with peakRate >= offPeakRate and no shoulder rate above the peak
\* rate, a valid profile of the same consumption with a higher peakPercent
\* and neither a higher shoulderPercent nor a higher offPeakPercent has a
\* usageCharge that is not lower.
C22_PeakShiftMonotone ==
    (Returned /\ SplitExact /\ PeakNotBelowOffPeak /\ ~ShoulderAbovePeak) =>
        \A q \in HigherPeakSplits :
            (q[2] <= usagePattern.shoulderPercent.n /\ q[3] <= usagePattern.offPeakPercent.n) =>
                UsageChargeAt(q).n >= outcome.breakdown.usageCharge.n

\* a plan with three different charged rates priced for a split from which
\* both other shares can move to the peak, the charge rising strictly
C22_Witness ==
    /\ Returned /\ SplitExact /\ PeakNotBelowOffPeak /\ ~ShoulderAbovePeak
    /\ planData.shoulder_cost = Num(136) /\ planData.off_peak_cost = Num(100)
    /\ usagePattern.peakPercent = Num(800) /\ usagePattern.shoulderPercent = Num(200)
    /\ UsageChargeAt(<<1500, 160, 340>>).n > outcome.breakdown.usageCharge.n

WithExport(e) == [usagePattern EXCEPT !.solarExport = e]

\* the exports a second profile is given
OtherExports == {Undefined, Num(0), Num(455), Num(1365), Num(5000)}

\* C17: two profiles that differ only in solarExport have the same
\* usageCharge and the same netGridConsumption, which is the quarterly
\* consumption; of the components only solarCredit changes with the export.
C17_ExportOnlyInCredit ==
    Returned =>
        /\ outcome.breakdown.netGridConsumption = usagePattern.quarterlyConsumption
        /\ \A e \in OtherExports :
              LET other == calculatePlanCost(planData, WithExport(e))
              IN /\ other # Null
                 /\ other.breakdown.usageCharge = outcome.breakdown.usageCharge
                 /\ other.breakdown.netGridConsumption = outcome.breakdown.netGridConsumption
                 /\ other.breakdown.supplyCharge = outcome.breakdown.supplyCharge
                 /\ other.breakdown.membershipFee = outcome.breakdown.membershipFee

\* 1365 kWh are exported and credited; the usage charge is that of the
\* whole consumption, as it is for the same profile without export
C17_Witness ==
    /\ Returned
    /\ planData.peak_cost = Num(200) /\ planData.shoulder_cost = Num(136)
    /\ planData.off_peak_cost = Num(136)
    /\ Consumption = 1365 /\ PeakShare = 1500 /\ ShoulderShare = 160
    /\ Export = 1365
    /\ outcome.breakdown.solarCredit.n > 0
    /\ outcome.breakdown.usageCharge = Num(502320000)
    /\ calculatePlanCost(planData, WithExport(Num(0))).breakdown.usageCharge = Num(502320000)
    /\ calculatePlanCost(planData, WithExport(Num(0))).breakdown.solarCredit = Num(0)

----------------------------------------------------------------------------
(* One call of shouldDisqualifyPlan *)

InitEligibility ==
    /\ planData \in EligibilityPlans
    /\ usagePattern = Undefined
    /\ outcome = Undefined
    /\ pc = "check"
    /\ plansData = <<>>
    /\ idx = 0
    /\ calculations = <<>>
    /\ ranked = <<>>
    /\ discounted = Undefined
    /\ form = Undefined
    /\ PageIdle
    /\ solarFitTiers = <<>>
    /\ totalCredit = Undefined
    /\ remainingExport = Undefined

DisqualifyReturn ==
    /\ pc = "check"
    /\ ~shouldDisqualifyPlanThrows(planData)
    /\ outcome' = Bool(shouldDisqualifyPlan(planData))
    /\ pc' = "checked"
    /\ UNCHANGED <<pageVars, form, solarFitTiers, totalCredit, remainingExport, discounted, plansData, usagePattern, idx, calculations, ranked, planData>>

DisqualifyThrow ==
    /\ pc = "check"
    /\ shouldDisqualifyPlanThrows(planData)
    /\ pc' = "thrown"
    /\ UNCHANGED <<pageVars, form, solarFitTiers, totalCredit, remainingExport, discounted, plansData, usagePattern, idx, calculations, ranked, planData, outcome>>

NextEligibility == DisqualifyReturn \/ DisqualifyThrow

SpecEligibility == InitEligibility /\ [][NextEligibility]_vars

----------------------------------------------------------------------------
(* One call of calculateAndRankPlans: the for-of loop, then the sort *)

InitRank ==
    /\ plansData \in SeqsUpTo(RankPlans, MaxPlans)
    /\ usagePattern \in RankUsages
    /\ idx = 1
    /\ calculations = <<>>
    /\ ranked = <<>>
    /\ discounted = Undefined
    /\ form = Undefined
    /\ PageIdle
    /\ solarFitTiers = <<>>
    /\ totalCredit = Undefined
    /\ remainingExport = Undefined
    /\ planData = Undefined
    /\ outcome = Undefined
    /\ pc = "loop"

InLoop == pc = "loop" /\ idx <= Len(plansData)

\* shouldDisqualifyPlan(plan) is true: log and continue
RankDisqualify ==
    /\ InLoop
    /\ ~shouldDisqualifyPlanThrows(plansData[idx])
    /\ shouldDisqualifyPlan(plansData[idx])
    /\ idx' = idx + 1
    /\ UNCHANGED <<pageVars, form, solarFitTiers, totalCredit, remainingExport, discounted, plansData, usagePattern, calculations, ranked, planData, outcome, pc>>

\* shouldDisqualifyPlan(plan) throws: nothing in calculateAndRankPlans catches it
RankThrow ==
    /\ InLoop
    /\ shouldDisqualifyPlanThrows(plansData[idx])
    /\ pc' = "thrown"
    /\ UNCHANGED <<pageVars, form, solarFitTiers, totalCredit, remainingExport, discounted, plansData, usagePattern, idx, calculations, ranked, planData, outcome>>

\* the plan is kept and its calculation is pushed
RankPush ==
    /\ InLoop
    /\ ~shouldDisqualifyPlanThrows(plansData[idx])
    /\ ~shouldDisqualifyPlan(plansData[idx])
    /\ calculatePlanCost(plansData[idx], usagePattern) # Null
    /\ calculations' = Append(calculations, calculatePlanCost(plansData[idx], usagePattern))
    /\ idx' = idx + 1
    /\ UNCHANGED <<pageVars, form, solarFitTiers, totalCredit, remainingExport, discounted, plansData, usagePattern, ranked, planData, outcome, pc>>

\* the plan is kept but calculatePlanCost returned null
RankSkip ==
    /\ InLoop
    /\ ~shouldDisqualifyPlanThrows(plansData[idx])
    /\ ~shouldDisqualifyPlan(plansData[idx])
    /\ calculatePlanCost(plansData[idx], usagePattern) = Null
    /\ idx' = idx + 1
    /\ UNCHANGED <<pageVars, form, solarFitTiers, totalCredit, remainingExport, discounted, plansData, usagePattern, calculations, ranked, planData, outcome, pc>>

\* mutant of SortByTotalCost: only the two cheapest are kept
SortTopTwo(s) ==
    SubSeq(ArraySort([p \in Elements(s) \X Elements(s) |-> CheaperThan(p[1], p[2])], s),
           1, IF Len(s) < 2 THEN Len(s) ELSE 2)

\* calculations.sort((a, b) => a.totalCost - b.totalCost)
SortByTotalCost(s) ==
    ArraySort([p \in Elements(s) \X Elements(s) |-> CheaperThan(p[1], p[2])], s)

\* mutant of RankSort: the array of plans given is put in the ranked order too
RankSortInPlace ==
    /\ pc = "loop"
    /\ idx > Len(plansData)
    /\ calculations' = SortByTotalCost(calculations)
    /\ ranked' = SortByTotalCost(calculations)
    /\ plansData' = [k \in 1..Len(calculations) |-> SortByTotalCost(calculations)[k].planData]
    /\ pc' = "ranked"
    /\ UNCHANGED <<pageVars, form, solarFitTiers, totalCredit, remainingExport, discounted, usagePattern, idx, planData, outcome>>

\* return calculations.sort(...): sorted in place and returned
RankSort ==
    /\ pc = "loop"
    /\ idx > Len(plansData)
    /\ calculations' = SortByTotalCost(calculations)
    /\ ranked' = SortByTotalCost(calculations)
    /\ pc' = "ranked"
    /\ UNCHANGED <<pageVars, form, solarFitTiers, totalCredit, remainingExport, discounted, plansData, usagePattern, idx, planData, outcome>>

NextRank == RankDisqualify \/ RankThrow \/ RankPush \/ RankSkip \/ RankSort

SpecRank == InitRank /\ [][NextRank]_vars

----------------------------------------------------------------------------
(* Claims about calculateAndRankPlans, checked under SpecRank *)

\* the plans of the breakdowns in an array of calculations
PlansOf(calcs) == { calcs[k].planData : k \in 1..Len(calcs) }

\* the plans of the caller's array
InputPlans == { plansData[k] : k \in 1..Len(plansData) }

\* C1: the returned list is in non-decreasing order of totalCost.
C1_RankedAscending ==
    pc = "ranked" =>
        \A i, j \in 1..Len(ranked) :
            i < j => /\ IsNumber(ranked[i].totalCost)
                     /\ IsNumber(ranked[j].totalCost)
                     /\ ranked[i].totalCost.n <= ranked[j].totalCost.n

\* three plans given dearest first come back cheapest first
C1_Witness ==
    /\ pc = "ranked"
    /\ Len(ranked) = 3
    /\ ranked[1].totalCost.n < ranked[2].totalCost.n
    /\ ranked[2].totalCost.n < ranked[3].totalCost.n
    /\ ranked[1].planData = plansData[3]
    /\ ranked[3].planData = plansData[1]

\* C2: no plan that carries a demand charge is among the calculations or in
\* the returned list, whatever its rates or price.
C2_NoDemandChargePlan ==
    /\ PlansOf(calculations) \cap DemandChargePlans = {}
    /\ PlansOf(ranked) \cap DemandChargePlans = {}

\* a ranking whose input held a demand-charge plan priced below every plan returned
C2_Witness ==
    /\ pc = "ranked"
    /\ Len(ranked) >= 1
    /\ \E k \in 1..Len(plansData) :
          /\ plansData[k] \in DemandChargePlans
          /\ calculatePlanCost(plansData[k], usagePattern).totalCost.n < ranked[1].totalCost.n

\* a peak or off-peak rate that is missing, null, zero or negative
RequiredRateInvalid(rate) == rate \in {Undefined, Null} \/ (IsNumber(rate) /\ rate.n <= 0)

RequiredRatesInvalid(plan) ==
    RequiredRateInvalid(plan.peak_cost) \/ RequiredRateInvalid(plan.off_peak_cost)

\* the plans of RankPlans with positive peak and off-peak rates, no demand
\* charge and no zero shoulder rate beside a shoulder window
ComparablePlans == { RankPlan(n) : n \in {1, 2, 3, 11, 12, 13} }

\* C8: a plan whose peak or off-peak rate is missing, null, zero or negative
\* is never among the calculations or in the returned list, and it is not
\* what makes the call throw: the loop passes it by and the comparable plans
\* of the input are ranked all the same.
C8_InvalidRatesSkipped ==
    /\ \A plan \in PlansOf(calculations) \cup PlansOf(ranked) : ~RequiredRatesInvalid(plan)
    /\ (pc = "thrown" => ~RequiredRatesInvalid(plansData[idx]))
    /\ (pc = "ranked" /\ usagePattern # Usage(1365, <<1000, 1000, 1000>>, Num(0)) =>
           InputPlans \cap ComparablePlans \subseteq PlansOf(ranked))

\* a completed ranking whose input held plans with invalid rates, one of
\* them with malformed time blocks too, besides a plan that was ranked
C8_Witness ==
    /\ pc = "ranked"
    /\ Len(ranked) = 1
    /\ Len(plansData) = 3
    /\ RankPlan(6) \in InputPlans
    /\ \E k \in 1..Len(plansData) :
          RequiredRatesInvalid(plansData[k]) /\ plansData[k].peak_cost = Num(0 - 5)

\* the plans of the returned breakdowns, in the order returned
RankedPlans == [k \in 1..Len(ranked) |-> ranked[k].planData]

\* the totalCost returned for a plan
RankedCost(plan) == ranked[CHOOSE k \in 1..Len(ranked) : ranked[k].planData = plan].totalCost

\* the plans of a sequence that were returned with the given totalCost
AtCost(plans, cost) ==
    LET Costs(plan) == plan \in PlansOf(ranked) /\ RankedCost(plan) = cost
    IN SelectSeq(plans, Costs)

\* C18: records with identical totalCost appear in the returned list in the
\* same relative order as in the input.
C18_StableRanking ==
    pc = "ranked" =>
        \A k \in 1..Len(ranked) :
            AtCost(RankedPlans, ranked[k].totalCost) = AtCost(plansData, ranked[k].totalCost)

\* two plans of the same price are given around a cheaper one: the cheaper
\* plan moves to the front and the two keep their input order
C18_Witness ==
    /\ pc = "ranked"
    /\ plansData = <<RankPlan(2), RankPlan(3), RankPlan(1)>>
    /\ RankedPlans = <<RankPlan(3), RankPlan(2), RankPlan(1)>>
    /\ ranked[2].totalCost = ranked[3].totalCost

\* how often a plan occurs in a sequence of plans
Occurrences(plan, plans) == Cardinality({ k \in 1..Len(plans) : plans[k] = plan })

\* the profile passes validateInputs (the third of RankUsages does not)
ValidProfile == usagePattern # Usage(1365, <<1000, 1000, 1000>>, Num(0))

\* the plan of RankPlans whose solar tier list holds a null entry: it is
\* eligible, and it is priced when nothing is exported, the tiers being
\* read only for a positive export
MalformedTierPlan == RankPlan(15)

\* the eligible plans whose calculation succeeds for the profile given
PricedPlans ==
    ComparablePlans \cup (IF usagePattern.solarExport = Num(0) THEN {MalformedTierPlan} ELSE {})

\* C19: for a valid profile the returned list holds exactly one breakdown
\* for each input record that is eligible and whose calculation succeeds,
\* as often as the record was given, and nothing else; nothing is cut off.
C19_NoTruncation ==
    (pc = "ranked" /\ ValidProfile) =>
        /\ \A plan \in RankPlans :
              Occurrences(plan, RankedPlans)
                 = IF plan \in PricedPlans THEN Occurrences(plan, plansData) ELSE 0
        /\ \A k \in 1..Len(ranked) : ranked[k].planData \in RankPlans

\* as many breakdowns as plans given, all of them eligible, one plan twice
C19_Witness ==
    /\ pc = "ranked" /\ ValidProfile
    /\ Len(plansData) = MaxPlans
    /\ Len(ranked) = MaxPlans
    /\ plansData[1] = plansData[MaxPlans]

\* calculateAndRankPlans has returned after a record was dropped whose
\* solar tier list made calculatePlanCost throw
TierRecordDropped ==
    /\ pc = "ranked" /\ ValidProfile
    /\ MalformedTierPlan \in InputPlans
    /\ MalformedTierPlan \notin PlansOf(ranked)

\* C20: a record whose processing raises an exception, for malformed tier
\* or time-block data, is the only record dropped: the call never ends in
\* the exception, and every other eligible record of the input is in the
\* ranking returned.
C20_ExceptionDropsOnlyRecord ==
    /\ pc # "thrown"
    /\ (pc = "ranked" /\ ValidProfile) => InputPlans \cap ComparablePlans \subseteq PlansOf(ranked)

\* the half of C20 that the code keeps: an exception inside
\* calculatePlanCost drops the record and the others are ranked
C20_TierExceptionCaught ==
    TierRecordDropped => InputPlans \cap ComparablePlans \subseteq PlansOf(ranked)

\* a ranking of two comparable plans returned beside the dropped record
C20_TierWitness ==
    /\ TierRecordDropped
    /\ Len(plansData) = 3
    /\ Len(ranked) = 2

\* C21: no step of a ranking call changes the array of plans given, its
\* length, its order or a field of one of its records, nor the usage
\* profile; the breakdowns returned carry the records as they were given.
C21_InputUnchanged ==
    [][/\ plansData' = plansData
       /\ usagePattern' = usagePattern
       /\ \A k \in 1..Len(ranked') : ranked'[k].planData \in InputPlans]_vars

\* a call has returned a ranking in another order than the plans were
\* given, after a plan was filtered out and tiers of a plan were sorted
C21_Witness ==
    /\ pc = "ranked"
    /\ Len(plansData) = 3
    /\ Len(ranked) = 2
    /\ RankPlan(13) \in PlansOf(ranked)
    /\ usagePattern.solarExport = Num(1365)
    /\ RankedPlans # SelectSeq(plansData, LAMBDA plan : plan \in PlansOf(ranked))

----------------------------------------------------------------------------
(* Claim about shouldDisqualifyPlan, checked under SpecEligibility *)

\* C9: a plan with valid peak and off-peak rates and no demand charge is
\* disqualified if and only if its shoulder rate is present (neither
\* undefined nor null), is <= 0, and its time blocks declare a shoulder
\* window; with an absent shoulder rate, or a zero one and no shoulder
\* window, it stays eligible.
C9_ShoulderRule ==
    (/\ pc = "checked"
     /\ ~RequiredRatesInvalid(planData)
     /\ planData.rawPlanData \in NoDemandRaw)
    => (outcome.b <=> /\ planData.shoulder_cost \notin {Undefined, Null}
                      /\ planData.shoulder_cost.n <= 0
                      /\ planData.detailed_time_blocks \in ShoulderBlocks)

\* a zero shoulder rate with a shoulder window named only in the block's name
C9_Witness ==
    /\ pc = "checked"
    /\ ~RequiredRatesInvalid(planData)
    /\ planData.rawPlanData \in NoDemandRaw
    /\ planData.shoulder_cost = Num(0)
    /\ planData.detailed_time_blocks = Arr(<<Block("P", Str("Peak")), Block("OP", Str("Off-Peak/Shoulder"))>>)
    /\ outcome.b

----------------------------------------------------------------------------
(* One call of detectGuaranteedDiscount *)

InitDiscount ==
    /\ planData \in DiscountPlans
    /\ usagePattern = Undefined
    /\ outcome = Undefined
    /\ pc = "detect"
    /\ plansData = <<>>
    /\ idx = 0
    /\ calculations = <<>>
    /\ ranked = <<>>
    /\ discounted = Undefined
    /\ form = Undefined
    /\ PageIdle
    /\ solarFitTiers = <<>>
    /\ totalCredit = Undefined
    /\ remainingExport = Undefined

\* the plan has no discounts: the initial result is returned at once
DetectNoDiscounts ==
    /\ pc = "detect"
    /\ ~Truthy(HasDiscounts(planData))
    /\ outcome' = detectGuaranteedDiscount(planData)
    /\ pc' = "detected"
    /\ UNCHANGED <<pageVars, form, solarFitTiers, totalCredit, remainingExport, discounted, plansData, usagePattern, idx, calculations, ranked, planData>>

\* the PCR costs are read, then the contract discounts
DetectDiscounts ==
    /\ pc = "detect"
    /\ Truthy(HasDiscounts(planData))
    /\ outcome' = detectGuaranteedDiscount(planData)
    /\ pc' = "detected"
    /\ UNCHANGED <<pageVars, form, solarFitTiers, totalCredit, remainingExport, discounted, plansData, usagePattern, idx, calculations, ranked, planData>>

NextDiscount == DetectNoDiscounts \/ DetectDiscounts

SpecDiscount == InitDiscount /\ [][NextDiscount]_vars

----------------------------------------------------------------------------
(* Claim about detectGuaranteedDiscount, checked under SpecDiscount *)

\* the record carries discount terms
CarriesDiscounts == planData.raw_plan_data = [t |-> "object", has_discounts |-> Bool(TRUE)]

\* the three reference figures are there, allDiscounts = guaranteedDiscount
\* and allDiscounts < noDiscounts
FiguresSayGuaranteed ==
    /\ planData.pcrCosts # Undefined
    /\ IsNumber(planData.pcrCosts.noDiscounts)
    /\ IsNumber(planData.pcrCosts.allDiscounts)
    /\ IsNumber(planData.pcrCosts.guaranteedDiscount)
    /\ planData.pcrCosts.allDiscounts.n = planData.pcrCosts.guaranteedDiscount.n
    /\ planData.pcrCosts.allDiscounts.n < planData.pcrCosts.noDiscounts.n

\* some structured discount term of some contract is conditional (type 'C')
SomeConditionalTerm ==
    \E c \in 1..Len(DetailedContracts(planData)) :
        /\ DetailedContracts(planData)[c].discount # Undefined
        /\ \E d \in 1..Len(DetailedContracts(planData)[c].discount.a) :
              DetailedContracts(planData)[c].discount.a[d].type = Str("C")

\* C10: a guaranteed discount is reported exactly when the record carries
\* discount terms, allDiscountsCost equals guaranteedDiscountCost,
\* allDiscountsCost is strictly less than noDiscountCost, and no structured
\* discount term is conditional; never for a record without discount terms.
C10_GuaranteedExactlyWhen ==
    pc = "detected" =>
        (outcome.hasGuaranteedDiscount <=>
            (CarriesDiscounts /\ FiguresSayGuaranteed /\ ~SomeConditionalTerm))

\* some structured discount term of some contract has category "Conditional"
SomeConditionalCategory ==
    \E c \in 1..Len(DetailedContracts(planData)) :
        /\ DetailedContracts(planData)[c].discount # Undefined
        /\ \E d \in 1..Len(DetailedContracts(planData)[c].discount.a) :
              DetailedContracts(planData)[c].discount.a[d].category = Str("Conditional")

\* the result carries no guaranteed discount, percent and cost
NotGuaranteed ==
    /\ ~outcome.hasGuaranteedDiscount
    /\ outcome.guaranteedDiscountPercent = Num(0)
    /\ outcome.guaranteedQuarterlyCost = Null

\* C11 as stated: a record whose figures satisfy the numeric rule and which
\* carries a term of category "Conditional" is classified not guaranteed.
C11_AsClaimed ==
    (pc = "detected" /\ CarriesDiscounts /\ FiguresSayGuaranteed /\ SomeConditionalCategory)
        => NotGuaranteed

\* C11: a record whose figures satisfy the numeric rule and which carries a
\* term of type 'C' is classified not guaranteed, with percent 0 and a null
\* guaranteed cost, wherever the term stands; the category is not consulted,
\* so a term of category "Conditional" and another type leaves it guaranteed.
C11_ConditionalTypeOverrides ==
    (pc = "detected" /\ CarriesDiscounts /\ FiguresSayGuaranteed) =>
        /\ SomeConditionalTerm => NotGuaranteed
        /\ ~SomeConditionalTerm => outcome.hasGuaranteedDiscount

\* the conditional term comes first and a term of another type follows it
C11_Witness ==
    /\ pc = "detected" /\ CarriesDiscounts /\ FiguresSayGuaranteed
    /\ Len(DetailedContracts(planData)) = 1
    /\ DetailedContracts(planData)[1].discount # Undefined
    /\ Len(DetailedContracts(planData)[1].discount.a) = 2
    /\ DetailedContracts(planData)[1].discount.a[1].type = Str("C")
    /\ DetailedContracts(planData)[1].discount.a[2].type = Str("D")
    /\ NotGuaranteed
    /\ Len(outcome.discountDetails) = 2

\* C13: when the discount is classified guaranteed, guaranteedPercent is
\* (noDiscountCost - guaranteedDiscountCost) / noDiscountCost x 100 and the
\* guaranteed cost is the guaranteedDiscountCost figure; when it is not,
\* guaranteedPercent is 0 and the guaranteed cost is null.
C13_PercentAndCost ==
    pc = "detected" =>
        IF outcome.hasGuaranteedDiscount
        THEN /\ planData.pcrCosts # Undefined
             /\ IsNumber(planData.pcrCosts.noDiscounts)
             /\ IsNumber(planData.pcrCosts.guaranteedDiscount)
             /\ outcome.guaranteedDiscountPercent.n * planData.pcrCosts.noDiscounts.n
                    = (planData.pcrCosts.noDiscounts.n - planData.pcrCosts.guaranteedDiscount.n) * 2000
             /\ outcome.guaranteedQuarterlyCost = planData.pcrCosts.guaranteedDiscount
        ELSE /\ outcome.guaranteedDiscountPercent = Num(0)
             /\ outcome.guaranteedQuarterlyCost = Null

----------------------------------------------------------------------------
(* calculateTieredSolarCredit, with calculateDailySolarCredit's loop walked
   one tier at a time *)

\* a feed-in rate of the API: unit price in 1/5 cent, volume in kWh per day
FitRate(unitPrice, volume) == [unitPrice |-> Num(unitPrice), volume |-> volume]

\* the rates of a three-tier schedule {12 c first 5 kWh/day, 10 c next
\* 10 kWh/day, 5 c excess} and of its parts, in every order the API may list
TierOrders ==
    LET a == FitRate(60, Num(5))
        b == FitRate(50, Num(10))
        c == FitRate(25, Undefined)
        d == FitRate(20, Null)
    IN { <<a, b, c>>, <<a, c, b>>, <<b, a, c>>, <<b, c, a>>, <<c, a, b>>, <<c, b, a>>,
         <<b, c>>, <<c, b>>, <<a, b>>, <<b, a>>, <<c, d, b>>, <<d, a, c>>, <<c>>, <<b>>, <<>> }

\* solarFit arrays: one retailer entry, a government entry that is skipped,
\* tiers spread over two entries, and an entry with a direct rate
SolarFits ==
    { Arr(<<RetailerFit(rates)>>) : rates \in TierOrders }
      \cup { Arr(<<[t |-> "object", type |-> "G", singleTariffRates |-> Arr(<<FitRate(300, Undefined)>>),
                    rate |-> Undefined],
                   RetailerFit(rates)>>) : rates \in {<<FitRate(25, Undefined), FitRate(50, Num(10))>>} }
      \cup { Arr(<<RetailerFit(<<FitRate(25, Undefined)>>), RetailerFit(<<FitRate(50, Num(10))>>)>>),
             Arr(<<[t |-> "object", type |-> "R", singleTariffRates |-> Undefined, rate |-> Num(30)]>>) }

SolarPlans ==
    { [BasePlan EXCEPT !.solar_feed_in_rate_r = f, !.rawPlanData = raw] :
        f \in {Undefined, Num(25)},
        raw \in {Undefined}
                \cup { RawPlan(fit, NoDemandPeriod) : fit \in SolarFits }
                \cup { [RawPlan(Undefined, NoDemandPeriod) EXCEPT !.solarFeedInTariff = TwoTierFitReversed] } }

\* quarterly exports in kWh: 455 is 5 kWh/day, 910 is 10 and 1365 is 15
SolarExports == {0 - 1, 0, 91, 455, 910, 1365, 2730}

InitSolar ==
    /\ planData \in SolarPlans
    /\ usagePattern \in { Usage(1365, <<1500, 160, 340>>, Num(e)) : e \in SolarExports }
    /\ outcome = Undefined
    /\ discounted = Undefined
    /\ form = Undefined
    /\ PageIdle
    /\ solarFitTiers = <<>>
    /\ totalCredit = Undefined
    /\ remainingExport = Undefined
    /\ pc = "solar"
    /\ plansData = <<>>
    /\ idx = 0
    /\ calculations = <<>>
    /\ ranked = <<>>

\* nothing exported, or no feed-in rate found: the credit is 0
SolarNone ==
    /\ pc = "solar"
    /\ \/ JsLe(usagePattern.solarExport, Num(0))
       \/ Len(extractSolarFitRates(planData)) = 0
    /\ outcome' = Num(0)
    /\ pc' = "credited"
    /\ UNCHANGED <<pageVars, form, solarFitTiers, totalCredit, remainingExport, discounted, plansData,
                   usagePattern, idx, calculations, ranked, planData>>

\* the tiers are extracted and calculateDailySolarCredit starts its loop
\* with the daily average export, solarExported / 91
SolarStart ==
    /\ pc = "solar"
    /\ ~JsLe(usagePattern.solarExport, Num(0))
    /\ Len(extractSolarFitRates(planData)) # 0
    /\ solarFitTiers' = extractSolarFitRates(planData)
    /\ totalCredit' = Num(0)
    /\ remainingExport' = usagePattern.solarExport
    /\ idx' = 1
    /\ pc' = "tiers"
    /\ UNCHANGED <<pageVars, form, discounted, plansData, usagePattern, calculations, ranked, planData, outcome>>

\* one pass of the loop over the tiers
SolarTier ==
    /\ pc = "tiers"
    /\ idx <= Len(solarFitTiers)
    /\ ~JsLe(remainingExport, Num(0))
    /\ LET tier == solarFitTiers[idx]
           tierExport == MathMin(remainingExport, TierLimit(tier, remainingExport))
       IN /\ totalCredit' = JsAdd(totalCredit, Scaled(JsMul(tierExport, tier.rate), 2000))
          /\ remainingExport' = JsSub(remainingExport, tierExport)
    /\ idx' = idx + 1
    /\ UNCHANGED <<pageVars, form, solarFitTiers, discounted, plansData, usagePattern, calculations, ranked,
                   planData, outcome, pc>>

\* the loop ends (tiers exhausted, or break) and dailySolarCredit * 91 is returned
SolarReturn ==
    /\ pc = "tiers"
    /\ (idx > Len(solarFitTiers) \/ JsLe(remainingExport, Num(0)))
    /\ outcome' = totalCredit
    /\ pc' = "credited"
    /\ UNCHANGED <<pageVars, form, solarFitTiers, totalCredit, remainingExport, discounted, plansData,
                   usagePattern, idx, calculations, ranked, planData>>

NextSolar == SolarNone \/ SolarStart \/ SolarTier \/ SolarReturn

SpecSolar == InitSolar /\ [][NextSolar]_vars

----------------------------------------------------------------------------
(* Claims about the solar credit, checked under SpecSolar.  Export and tier
   volumes are in 1/91 kWh per day, that is in kWh per quarter; credits are
   in millionths of a dollar per quarter, that is in 1/91 of that per day. *)

\* the loop of calculateDailySolarCredit has been entered
TiersWalked == pc = "tiers" \/ (pc = "credited" /\ totalCredit # Undefined)

\* what tier k can take of an export: its daily limit, or everything
TierCap(k) ==
    IF solarFitTiers[k].volume = Null THEN Export ELSE solarFitTiers[k].volume.n * 91

\* the export that the tiers before the k-th take
RECURSIVE FilledBefore(_)
FilledBefore(k) ==
    IF k <= 1 THEN 0
    ELSE IF FilledBefore(k - 1) + TierCap(k - 1) > Export THEN Export
    ELSE FilledBefore(k - 1) + TierCap(k - 1)

\* the credit that the tiers before the k-th give, each at its own rate
RECURSIVE CreditBefore(_)
CreditBefore(k) ==
    IF k <= 1 THEN 0
    ELSE CreditBefore(k - 1)
            + (FilledBefore(k) - FilledBefore(k - 1)) * solarFitTiers[k - 1].rate.n * 2000

\* the schedule {10 c first 10 kWh/day, 5 c excess}
TwoTierSchedule ==
    solarFitTiers = <<[rate |-> Num(50), volume |-> Num(10)], [rate |-> Num(25), volume |-> Null]>>

\* C14: the tiers are walked in order, each taking min(remaining export, its
\* daily limit) at its own rate and an unbounded tier taking all the rest;
\* the volume credited never exceeds the export; 15 kWh/day (1365 kWh per
\* quarter) against {10 c first 10 kWh/day, 5 c excess} gives 1.25 a day,
\* 113.75 a quarter.
C14_TieredCredit ==
    TiersWalked =>
        /\ remainingExport.n = Export - FilledBefore(idx)
        /\ remainingExport.n >= 0 /\ remainingExport.n <= Export
        /\ totalCredit.n = CreditBefore(idx)
        /\ pc = "credited" =>
              /\ outcome.n = CreditBefore(Len(solarFitTiers) + 1)
              /\ solarFitTiers[Len(solarFitTiers)].volume = Null => remainingExport.n = 0
              /\ (TwoTierSchedule /\ Export = 1365) =>
                    (outcome.n = 113750000 /\ outcome.n = 1250000 * 91)

\* the schedule is listed with its unbounded tier first, 15 kWh/day are
\* exported, and the credit is 113.75
C14_Witness ==
    /\ pc = "credited"
    /\ planData.rawPlanData # Undefined
    /\ ContractSolarFit(planData) = Arr(<<RetailerFit(<<FitRate(25, Undefined), FitRate(50, Num(10))>>)>>)
    /\ TwoTierSchedule
    /\ Export = 1365
    /\ idx = 3
    /\ outcome = Num(113750000)

\* C15: in the tier sequence every volume-bounded tier precedes any tier
\* without volume limit and the bounded tiers are in ascending volume
\* order, so an unbounded tier takes export only after every bounded tier.
C15_UnboundedLast ==
    TiersWalked =>
        \A i \in 1..Len(solarFitTiers) : \A j \in 1..Len(solarFitTiers) :
            i < j =>
                /\ solarFitTiers[i].volume = Null => solarFitTiers[j].volume = Null
                /\ (solarFitTiers[i].volume # Null /\ solarFitTiers[j].volume # Null)
                      => solarFitTiers[i].volume.n <= solarFitTiers[j].volume.n

\* the API lists the unbounded tier first and the larger bounded tier
\* before the smaller; the walk has reached the unbounded tier, now last
C15_Witness ==
    /\ pc = "tiers"
    /\ planData.rawPlanData # Undefined
    /\ ContractSolarFit(planData)
          = Arr(<<RetailerFit(<<FitRate(25, Undefined), FitRate(50, Num(10)), FitRate(60, Num(5))>>)>>)
    /\ Len(solarFitTiers) = 3
    /\ solarFitTiers[3].volume = Null
    /\ idx = 3
    /\ remainingExport.n > 0

----------------------------------------------------------------------------
(* The custom plan of the comparison page (unnamed/part_009): createCustomPlan
   reads the form and calculateAndRankPlans([customPlan], usagePattern)
   prices it *)

\* the value of a number input: left blank, or a typed number (held in the
\* unit of its field)
Blank == [t |-> "string", blank |-> TRUE, typed |-> 0]
Typed(n) == [t |-> "string", blank |-> FALSE, typed |-> n]

\* parseFloat of the value of a number input
parseFloat(value) == IF value.blank THEN NaN ELSE Num(value.typed)

\* the time blocks every custom plan is given
CustomTimeBlocks ==
    Arr(<<Block("P", Str("Peak")), Block("S", Str("Shoulder")), Block("O", Str("Off-Peak"))>>)

\* createCustomPlan.  The fee typed in dollars, divided by 100, is held in
\* cents; membership_fee_quarterly and fees are not set.
createCustomPlan(fields) ==
    LET solarFit == JsOr(parseFloat(fields.solarFit), Num(0))
        membershipFee == JsOr(parseFloat(fields.membershipFee), Num(0))
    IN [t |-> "object",
        plan_name |-> 0,
        peak_cost |-> parseFloat(fields.peakRate),
        shoulder_cost |-> parseFloat(fields.shoulderRate),
        off_peak_cost |-> parseFloat(fields.offpeakRate),
        daily_supply_charge |-> parseFloat(fields.supplyCharge),
        solar_feed_in_rate_r |-> IF JsGt(solarFit, Num(0)) THEN solarFit ELSE Null,
        membership_fee_annual |-> membershipFee,
        membership_fee_quarterly |-> Undefined,
        fees |-> Undefined,
        rawPlanData |-> Undefined,
        detailed_time_blocks |-> CustomTimeBlocks]

\* forms that validateCustomPlan lets through: the four required numbers
\* are typed and not negative; solar feed-in and membership fee are optional
CustomForms ==
    { [peakRate |-> Typed(200), shoulderRate |-> sh, offpeakRate |-> op, supplyCharge |-> su,
       solarFit |-> fit, membershipFee |-> fee] :
        sh \in {Typed(136), Typed(0)},
        op \in {Typed(136), Typed(100)},
        su \in {Typed(105), Typed(130)},
        fit \in {Blank, Typed(0), Typed(25)},
        fee \in {Blank, Typed(0), Typed(80), Typed(120)} }

CustomUsages ==
    { Usage(1365, <<1500, 160, 340>>, e) : e \in {Num(0), Num(1365)} }

InitCustom ==
    /\ form \in CustomForms
    /\ PageIdle
    /\ usagePattern \in CustomUsages
    /\ planData = Undefined
    /\ outcome = Undefined
    /\ discounted = Undefined
    /\ solarFitTiers = <<>>
    /\ totalCredit = Undefined
    /\ remainingExport = Undefined
    /\ pc = "form"
    /\ plansData = <<>>
    /\ idx = 0
    /\ calculations = <<>>
    /\ ranked = <<>>

\* const customPlan = createCustomPlan()
CustomCreate ==
    /\ pc = "form"
    /\ planData' = createCustomPlan(form)
    /\ plansData' = <<createCustomPlan(form)>>
    /\ pc' = "created"
    /\ UNCHANGED <<pageVars, form, solarFitTiers, totalCredit, remainingExport, discounted, usagePattern,
                   idx, calculations, ranked, outcome>>

\* calculateAndRankPlans([customPlan], usagePattern): the plan is left out
\* when it is disqualified or its calculation is null, else its breakdown
\* is the only element
CustomRank ==
    /\ pc = "created"
    /\ ~shouldDisqualifyPlanThrows(planData)
    /\ LET calculation == IF shouldDisqualifyPlan(planData) THEN Null
                          ELSE calculatePlanCost(planData, usagePattern)
       IN /\ ranked' = IF calculation = Null THEN <<>> ELSE <<calculation>>
          /\ outcome' = calculation
    /\ pc' = "compared"
    /\ UNCHANGED <<pageVars, form, solarFitTiers, totalCredit, remainingExport, discounted, plansData,
                   usagePattern, idx, calculations, planData>>

NextCustom == CustomCreate \/ CustomRank

SpecCustom == InitCustom /\ [][NextCustom]_vars

----------------------------------------------------------------------------
(* calculatePlanCost for the usage pattern read from the settings form *)

\* parseInt of the value of a number input: NaN for an empty field
parseInt(value) == IF value.blank THEN NaN ELSE Num(value.typed)

\* getFormUsagePattern; the percentages are typed in whole points
getFormUsagePattern(fields) ==
    [quarterlyConsumption |-> parseInt(fields.quarterlyConsumption),
     peakPercent |-> Scaled(parseInt(fields.peakPercent), 20),
     shoulderPercent |-> Scaled(parseInt(fields.shoulderPercent), 20),
     offPeakPercent |-> Scaled(parseInt(fields.offPeakPercent), 20),
     solarExport |-> JsOr(parseInt(fields.solarExport), Num(0))]

\* values of the five fields of the settings form, typed or left empty
UsageForms ==
    { [quarterlyConsumption |-> c, peakPercent |-> p, shoulderPercent |-> sh,
       offPeakPercent |-> op, solarExport |-> e] :
        c \in {Blank, Typed(0), Typed(1365)},
        p \in {Blank, Typed(75), Typed(40)},
        sh \in {Blank, Typed(8), Typed(10)},
        op \in {Blank, Typed(17), Typed(50)},
        e \in {Blank, Typed(0), Typed(1365)} }

\* plans without solar rates, with a simple rate and with tiered rates
SettingsPlans ==
    { BasePlan,
      [BasePlan EXCEPT !.solar_feed_in_rate_r = Num(25)],
      [BasePlan EXCEPT !.rawPlanData = RawPlan(TwoTierFit, NoDemandPeriod)] }

InitInput ==
    /\ form \in UsageForms
    /\ PageIdle
    /\ planData \in SettingsPlans
    /\ usagePattern = Undefined
    /\ outcome = Undefined
    /\ pc = "form"
    /\ plansData = <<>>
    /\ idx = 0
    /\ calculations = <<>>
    /\ ranked = <<>>
    /\ discounted = Undefined
    /\ solarFitTiers = <<>>
    /\ totalCredit = Undefined
    /\ remainingExport = Undefined

\* const customPattern = getFormUsagePattern()
InputRead ==
    /\ pc = "form"
    /\ usagePattern' = getFormUsagePattern(form)
    /\ pc' = "call"
    /\ UNCHANGED <<pageVars, form, solarFitTiers, totalCredit, remainingExport, discounted, plansData,
                   idx, calculations, ranked, planData, outcome>>

NextInput == InputRead \/ CalcReject \/ CalcReturn

SpecInput == InitInput /\ [][NextInput]_vars

----------------------------------------------------------------------------
(* extractTariffPeriods and the record collectPlans builds from it, handed
   to shouldDisqualifyPlan.  The unit prices of the API are in 1/5 cent
   before GST, in multiples of ten. *)

\* x * GST_TAX, GST_TAX being 1.10
GstAdjusted(x) ==
    IF IsNumber(ToNumber(x)) THEN Num((ToNumber(x).n * 11) \div 10) ELSE NaN

\* x || []
OrEmpty(x) == IF Truthy(x) THEN x.a ELSE <<>>

\* the sequences of a sequence, one after the other
RECURSIVE Flatten(_)
Flatten(ss) == IF ss = <<>> THEN <<>> ELSE Head(ss) \o Flatten(Tail(ss))

\* the adjusted rates pushed for the blockRate of one touBlock
BlockRates(block) ==
    [k \in 1..Len(OrEmpty(block.blockRate)) |-> GstAdjusted(OrEmpty(block.blockRate)[k].unitPrice)]

\* the adjusted rates pushed for the touBlock of one tariffPeriod
PeriodRates(period) ==
    Flatten([k \in 1..Len(OrEmpty(period.touBlock)) |-> BlockRates(OrEmpty(period.touBlock)[k])])

\* the tariff periods of all contracts, in the order the loops visit them
AllPeriods(contracts) ==
    Flatten([k \in 1..Len(contracts) |-> OrEmpty(contracts[k].tariffPeriod)])

\* tariffPeriods.sort((a, b) => b - a)
SortDescending(tariffPeriods) ==
    ArraySort([p \in Elements(tariffPeriods) \X Elements(tariffPeriods) |-> p[1].n > p[2].n],
              tariffPeriods)

\* the values returned once the rates are collected and sorted
PeriodsResult(sorted, periods) ==
    [peak |-> IF Len(sorted) > 0 THEN sorted[1] ELSE Null,
     shoulder |-> IF Len(sorted) > 1 THEN sorted[2] ELSE Null,
     offPeak |-> IF Len(sorted) > 2 THEN sorted[3] ELSE Null,
     dailySupplyCharge |->
         IF Len(periods) = 0 THEN Null
         ELSE GstAdjusted(JsOr(periods[Len(periods)].dailySupplyCharge, Num(0)))]

\* the rates of all periods, as pushed
CollectedRates(periods) == Flatten([k \in 1..Len(periods) |-> PeriodRates(periods[k])])

extractTariffPeriods(plan) ==
    PeriodsResult(SortDescending(CollectedRates(AllPeriods(OrEmpty(plan.planData.contract)))),
                  AllPeriods(OrEmpty(plan.planData.contract)))

\* the record collectPlans pushes for a time-of-use plan: the fields the
\* calculator reads; fees and solar rate come from extractFeesAndSolar
TouRecord(periods) ==
    [BasePlan EXCEPT !.peak_cost = periods.peak,
                     !.shoulder_cost = periods.shoulder,
                     !.off_peak_cost = periods.offPeak,
                     !.daily_supply_charge = periods.dailySupplyCharge]

\* a touBlock with the unit prices of its blockRate
TouBlock(prices) ==
    [t |-> "object",
     blockRate |-> Arr([k \in 1..Len(prices) |-> [t |-> "object", unitPrice |-> Num(prices[k])]])]

\* an API plan with one contract and one tariff period of the given blocks
ApiPlan(blocks, supply) ==
    [t |-> "object",
     planData |->
        [t |-> "object",
         contract |-> Arr(<<[t |-> "object",
                            tariffPeriod |-> Arr(<<[t |-> "object",
                                                   touBlock |-> Arr(blocks),
                                                   dailySupplyCharge |-> supply]>>)]>>)]]

\* the unit prices of the API plans
ApiPrices == {100, 150, 200}

\* the most touBlocks of an API plan
MaxBlocks == 3

\* API plans with up to MaxBlocks blocks of one rate each, and plans whose
\* single block has two stepped rates
ApiPlans ==
    { ApiPlan([k \in 1..Len(prices) |-> TouBlock(<<prices[k]>>)], supply) :
        prices \in SeqsUpTo(ApiPrices, MaxBlocks), supply \in {Num(100), Undefined} }
    \cup { ApiPlan(<<TouBlock(<<a, b>>)>>, Num(100)) : a \in ApiPrices, b \in ApiPrices }

InitExtract ==
    /\ apiPlan \in ApiPlans
    /\ SlidersIdle
    /\ PagingIdle
    /\ AppIdle
    /\ planData = Undefined
    /\ usagePattern = Undefined
    /\ outcome = Undefined
    /\ pc = "api"
    /\ plansData = <<>>
    /\ idx = 0
    /\ calculations = <<>>
    /\ ranked = <<>>
    /\ discounted = Undefined
    /\ form = Undefined
    /\ solarFitTiers = <<>>
    /\ totalCredit = Undefined
    /\ remainingExport = Undefined

\* collectPlans: extractTariffPeriods(plan) and the record pushed
ExtractRecord ==
    /\ pc = "api"
    /\ planData' = TouRecord(extractTariffPeriods(apiPlan))
    /\ pc' = "check"
    /\ UNCHANGED <<apiPlan, sliderVars, pagingVars, appVars, form, solarFitTiers, totalCredit, remainingExport, discounted,
                   plansData, usagePattern, idx, calculations, ranked, outcome>>

NextExtract == ExtractRecord \/ DisqualifyReturn

SpecExtract == InitExtract /\ [][NextExtract]_vars

----------------------------------------------------------------------------
(* Claims about the custom plan, checked under SpecCustom *)

\* the annual membership fee typed into the form, in dollars
AnnualFeeTyped == IF form.membershipFee.blank THEN 0 ELSE form.membershipFee.typed

\* C16: the membershipFee component of the bill of a plan built by
\* createCustomPlan is its annual membership fee divided by 4, and 0 for a
\* plan without membership fee.
C16_CustomMembershipQuarter ==
    (pc = "compared" /\ ranked # <<>>) =>
        4 * ranked[1].breakdown.membershipFee.n = AnnualFeeTyped * 1000000

----------------------------------------------------------------------------
(* calculatePlanCost followed by applyGuaranteedDiscount on its totalCost,
   the use that unnamed/part_012 describes for the web UI *)

\* the discount data of a plan: reference costs 500/400/400 (20 % guaranteed),
\* 400/300/300 (25 %), 500/300/400 (part of the discount is conditional),
\* 500/500/500 (no discount), or none
BillDiscounts ==
    { [t |-> "object", raw_plan_data |-> raw, pcrCosts |-> pcr, detailedContract |-> contracts] :
        raw \in {[t |-> "object", has_discounts |-> Bool(TRUE)],
                 [t |-> "object", has_discounts |-> Bool(FALSE)]},
        pcr \in {Undefined}
                \cup { [t |-> "object", noDiscounts |-> Num(f[1]), allDiscounts |-> Num(f[2]),
                        guaranteedDiscount |-> Num(f[3])] :
                          f \in {<<500, 400, 400>>, <<400, 300, 300>>, <<500, 300, 400>>, <<500, 500, 500>>} },
        contracts \in {Undefined}
                \cup { Arr(<<DiscountContract(Arr(terms))>>) :
                          terms \in { [k \in 1..Len(ty) |->
                                          [t |-> "object", type |-> Str(ty[k]), category |-> Str(""),
                                           discountPercent |-> Num(200)]] :
                                       ty \in {<<"C">>, <<"D">>, <<"D", "C">>} } } }

\* plans with both their tariff and their discount data
BillPlans ==
    { [BasePlan EXCEPT !.daily_supply_charge = d,
                       !.membership_fee_quarterly = m[1], !.fees = m[2],
                       !.solar_feed_in_rate_r = f] @@ disc :
        d \in {Num(105), Num(130)},
        m \in MembershipVariants,
        f \in {Undefined, Num(25)},
        disc \in BillDiscounts }

BillUsages ==
    { Usage(1365, <<1500, 160, 340>>, e) : e \in {Undefined, Num(1365), Num(5000)} }
        \cup { Usage(0, <<1500, 160, 340>>, Num(0)) }

InitBill ==
    /\ planData \in BillPlans
    /\ usagePattern \in BillUsages
    /\ outcome = Undefined
    /\ discounted = Undefined
    /\ form = Undefined
    /\ PageIdle
    /\ solarFitTiers = <<>>
    /\ totalCredit = Undefined
    /\ remainingExport = Undefined
    /\ pc = "bill"
    /\ plansData = <<>>
    /\ idx = 0
    /\ calculations = <<>>
    /\ ranked = <<>>

\* calculatePlanCost(planData, usagePattern)
BillCalculate ==
    /\ pc = "bill"
    /\ outcome' = calculatePlanCost(planData, usagePattern)
    /\ pc' = "billed"
    /\ UNCHANGED <<pageVars, form, solarFitTiers, totalCredit, remainingExport, discounted, plansData, usagePattern, idx, calculations, ranked, planData>>

\* applyGuaranteedDiscount(planData, the calculated totalCost)
BillApplyDiscount ==
    /\ pc = "billed"
    /\ outcome # Null
    /\ discounted' = applyGuaranteedDiscount(planData, outcome.totalCost)
    /\ pc' = "discounted"
    /\ UNCHANGED <<pageVars, form, solarFitTiers, totalCredit, remainingExport, plansData, usagePattern, idx, calculations, ranked, planData, outcome>>

NextBill == BillCalculate \/ BillApplyDiscount

SpecBill == InitBill /\ [][NextBill]_vars

----------------------------------------------------------------------------
(* Claims about the discounted bill, checked under SpecBill *)

\* max(0, supply + usage + membership - solar credit) of the breakdown
FlooredBill == IF BillBeforeFloor < 0 THEN 0 ELSE BillBeforeFloor

\* an amount reduced by a percentage given in 1/20 of a point
ReducedBy(amount, percent) ==
    (amount \div 2000) * (2000 - percent) + ((amount % 2000) * (2000 - percent)) \div 2000

\* C12: when the plan's discount is classified guaranteed, the totalCost of
\* calculatePlanCost is the quarterly total reduced by the guaranteed
\* percentage; otherwise it is the undiscounted total.
C12_DiscountedTotal ==
    pc = "discounted" =>
        outcome.totalCost.n =
            IF discounted.discountApplied
            THEN ReducedBy(FlooredBill, discounted.discountPercent.n)
            ELSE FlooredBill

----------------------------------------------------------------------------
(* The percentage sliders of the settings form: one input event on a slider,
   with its handler's call of adjustOtherPercentages *)

\* the variables of the calculator's calls
engineVars ==
    <<plansData, usagePattern, idx, calculations, ranked, planData, outcome, discounted, form,
      solarFitTiers, totalCredit, remainingExport, pc>>

EngineIdle ==
    /\ plansData = <<>>
    /\ usagePattern = Undefined
    /\ idx = 0
    /\ calculations = <<>>
    /\ ranked = <<>>
    /\ planData = Undefined
    /\ outcome = Undefined
    /\ discounted = Undefined
    /\ form = Undefined
    /\ solarFitTiers = <<>>
    /\ totalCredit = Undefined
    /\ remainingExport = Undefined

percentageInputs == {"peak-percent", "shoulder-percent", "offpeak-percent"}

\* the range of a slider: min="0" max="100"
SliderValues == 0..100

\* otherInputs: the two sliders to adjust, in the order of the code
otherInputs(changed) ==
    CASE changed = "peak-percent" -> <<"shoulder-percent", "offpeak-percent">>
      [] changed = "shoulder-percent" -> <<"peak-percent", "offpeak-percent">>
      [] OTHER -> <<"peak-percent", "shoulder-percent">>

\* Math.round(remaining * (value / otherSum)): the nearest integer, and
\* either neighbour when the exact product lies halfway, the floating-point
\* product being a little above or below it
RoundedShare(remaining, value, otherSum) ==
    IF (2 * remaining * value) % (2 * otherSum) = otherSum
    THEN { (remaining * value) \div otherSum, (remaining * value) \div otherSum + 1 }
    ELSE { (2 * remaining * value + otherSum) \div (2 * otherSum) }

\* Math.max(0, Math.min(100, x)), and the range of the input
Clamped(x) == IF x < 0 THEN 0 ELSE IF x > 100 THEN 100 ELSE x

\* mutant of SecondShare: the second slider is given its own rounded share
SecondShareRounded(remaining, newValue1, value2, otherSum) ==
    (2 * remaining * value2 + otherSum) \div (2 * otherSum)

\* newValue2 = remaining - newValue1
SecondShare(remaining, newValue1, value2, otherSum) == remaining - newValue1

\* the values adjustOtherPercentages may leave in the sliders, the changed
\* slider holding its new value
adjustOtherPercentages(values, changed) ==
    LET remaining == 100 - values[changed]
        first == otherInputs(changed)[1]
        second == otherInputs(changed)[2]
        otherSum == values[first] + values[second]
    IN IF otherSum > 0
       THEN { [values EXCEPT ![first] = Clamped(newValue1),
                             ![second] = Clamped(SecondShare(remaining, newValue1, values[second], otherSum))] :
                newValue1 \in RoundedShare(remaining, values[first], otherSum) }
       ELSE { [values EXCEPT ![first] = Clamped((remaining \div 2) + (remaining - (remaining \div 2) * 2)),
                             ![second] = Clamped(remaining \div 2)] }

\* the values the sliders start from: the page's 15 / 25 / 60 and others
StartValues == {0, 15, 25, 60, 100}

InitSliders ==
    /\ sliders \in [percentageInputs -> StartValues]
    /\ changedInputId = Undefined
    /\ changedValue = Undefined
    /\ apiPlan = Undefined
    /\ PagingIdle
    /\ AppIdle
    /\ EngineIdle
    /\ pc = "sliders"

\* an input event on a slider: the slider takes the value and the handler
\* adjusts the two others
SliderInput ==
    /\ pc = "sliders"
    /\ \E inputId \in percentageInputs, value \in SliderValues :
          /\ sliders' \in adjustOtherPercentages([sliders EXCEPT ![inputId] = value], inputId)
          /\ changedInputId' = Str(inputId)
          /\ changedValue' = Num(value)
    /\ UNCHANGED <<enginePageVars, pagingVars, appVars, engineVars>>

NextSliders == SliderInput

SpecSliders == InitSliders /\ [][NextSliders]_vars

----------------------------------------------------------------------------
(* The paginated plan cards of ui.js: displayPlanCards and changePage *)

plansPerPage == 10

\* the longest ranking handed to displayPlanCards
MaxRanked == 31

\* a ranking of n calculations for a persona, the k-th being its rank k
Ranking(persona, n) == [k \in 1..n |-> [persona |-> persona, rank |-> k]]

Rankings == { Ranking(persona, n) : persona \in {"family", "couple"}, n \in 0..MaxRanked }

\* the page numbers changePage is called with
PageArguments == (0 - 1)..((MaxRanked \div plansPerPage) + 3)

\* Array.prototype.slice(startIndex, endIndex), the indices counted from 0
Slice(s, startIndex, endIndex) ==
    IF startIndex >= Len(s) THEN <<>>
    ELSE SubSeq(s, startIndex + 1, IF endIndex > Len(s) THEN Len(s) ELSE endIndex)

\* mutant of PagePlans: the slice starts at currentPage * plansPerPage
PagePlansFromNext(calculationsShown, page) ==
    Slice(calculationsShown, page * plansPerPage, page * plansPerPage + plansPerPage)

\* displayCurrentPage: the plans whose cards replace the cards shown
PagePlans(calculationsShown, page) ==
    Slice(calculationsShown, (page - 1) * plansPerPage, (page - 1) * plansPerPage + plansPerPage)

\* Math.ceil(allPlanCalculations.length / plansPerPage)
TotalPages(calculationsShown) == (Len(calculationsShown) + plansPerPage - 1) \div plansPerPage

InitPages ==
    /\ PagingIdle
    /\ apiPlan = Undefined
    /\ SlidersIdle
    /\ AppIdle
    /\ EngineIdle
    /\ pc = "pages"

\* displayPlanCards(rankedCalculations, personaKey)
DisplayPlanCards ==
    /\ pc = "pages"
    /\ \E rankedCalculations \in Rankings :
          /\ allPlanCalculations' = rankedCalculations
          /\ currentPage' = 1
          /\ planCards' = PagePlans(rankedCalculations, 1)
    /\ UNCHANGED <<enginePageVars, sliderVars, appVars, engineVars>>

\* changePage(page) with a page of 1..totalPages
ChangePage ==
    /\ pc = "pages"
    /\ \E page \in PageArguments :
          /\ ~(page < 1 \/ page > TotalPages(allPlanCalculations))
          /\ currentPage' = page
          /\ planCards' = PagePlans(allPlanCalculations, page)
    /\ UNCHANGED <<allPlanCalculations, enginePageVars, sliderVars, appVars, engineVars>>

\* changePage(page) with another page: the early return
ChangePageReturn ==
    /\ pc = "pages"
    /\ \E page \in PageArguments : page < 1 \/ page > TotalPages(allPlanCalculations)
    /\ UNCHANGED vars

NextPages == DisplayPlanCards \/ ChangePage \/ ChangePageReturn

SpecPages == InitPages /\ [][NextPages]_vars

----------------------------------------------------------------------------
(* The main page controller, app.js: persona buttons, the customization
   modal, and the handlers that wait in a setTimeout delay before they call
   updateCalculationsDisplay *)

\* calculateAndRankPlans, the loop from plan k on: the calculations pushed
PushCalculation(calculation, rest) ==
    IF calculation = Null THEN rest ELSE <<calculation>> \o rest

RECURSIVE CalculationsFrom(_, _, _)
CalculationsFrom(plans, usage, k) ==
    IF k > Len(plans) THEN <<>>
    ELSE IF shouldDisqualifyPlan(plans[k]) THEN CalculationsFrom(plans, usage, k + 1)
    ELSE PushCalculation(calculatePlanCost(plans[k], usage), CalculationsFrom(plans, usage, k + 1))

\* calculateAndRankPlans throws: shouldDisqualifyPlan throws for some plan
calculateAndRankPlansThrows(plans) ==
    \E k \in 1..Len(plans) : shouldDisqualifyPlanThrows(plans[k])

\* the array calculateAndRankPlans returns
calculateAndRankPlans(plans, usage) == SortByTotalCost(CalculationsFrom(plans, usage, 1))

\* the persona buttons of the model, two of the four of the page
PersonaKeys == {"commuter-no-solar", "wfh-solar"}

\* getPersonaConfig: the usage pattern of PERSONAS[personaKey]
getPersonaConfig(personaKey) ==
    IF personaKey = "wfh-solar"
    THEN Usage(1365, <<600, 500, 900>>, Num(600))
    ELSE Usage(1365, <<800, 200, 1000>>, Num(0))

\* appState.energyPlans as loaded: plans that are all ranked, a plan with a
\* demand charge only, a plan whose solar tiers throw for an export beside
\* one without, and a plan whose time blocks make shouldDisqualifyPlan throw
EnergyPlanLists ==
    { <<RankPlan(3), RankPlan(1)>>, <<RankPlan(4)>>, <<RankPlan(15)>>, <<RankPlan(1), RankPlan(14)>> }

\* the patterns the settings form may hold when Apply is clicked
FormPatterns ==
    { Usage(1365, <<1500, 160, 340>>, Num(0)),
      Usage(1365, <<1000, 1000, 1000>>, Num(0)),
      Usage(1365, <<800, 200, 1000>>, Num(1365)) }

\* the most handlers waiting in their delay at a time
MaxPending == 2

\* the usage pattern updateCalculationsDisplay uses
UsagePatternOf(state) ==
    IF state.isCustomized /\ state.customUsagePattern # Null
    THEN state.customUsagePattern
    ELSE getPersonaConfig(state.currentPersona.s)

\* updateCalculationsDisplay throws: data missing, calculateAndRankPlans
\* throws, or no calculation is returned
updateCalculationsDisplayThrows(state) ==
    \/ ~Truthy(state.energyPlans)
    \/ ~Truthy(state.currentPersona)
    \/ calculateAndRankPlansThrows(state.energyPlans.a)
    \/ Len(calculateAndRankPlans(state.energyPlans.a, UsagePatternOf(state))) = 0

\* mutant of DisplayPersona: the persona the waiting handler was called with
DisplayPersonaOfHandler(state, timer) ==
    IF timer.handler = "handlePersonaSelection" THEN timer.personaKey ELSE state.currentPersona

\* the persona whose results updateCalculationsDisplay calculates and
\* displays: appState.currentPersona at the time of the call
DisplayPersona(state, timer) == state.currentPersona

\* displayPlanCards(rankedCalculations, appState.currentPersona) as called
\* by updateCalculationsDisplay for the handler of the timer
DisplayOf(state, timer) ==
    [rankedCalculations |->
        calculateAndRankPlans(state.energyPlans.a,
                              UsagePatternOf([state EXCEPT !.currentPersona = DisplayPersona(state, timer)])),
     personaKey |-> DisplayPersona(state, timer)]

\* mutant of PassesValidation: every pattern is applied
PassesValidationAlways(customPattern) == TRUE

\* validateInputs(customPattern) in handleCustomSettingsApply
PassesValidation(customPattern) == validateInputs(customPattern)

\* the timer of a call that is not made from a waiting handler
NoTimer == [handler |-> "none", personaKey |-> Undefined]

\* the handlers of one kind have the same delay and resume oldest first
MayResume(i) ==
    /\ i \in 1..Len(timers)
    /\ \A j \in 1..(i - 1) : timers[j].handler # timers[i].handler

\* the timers without the i-th
WithoutTimer(i) == SubSeq(timers, 1, i - 1) \o SubSeq(timers, i + 1, Len(timers))

InitApp ==
    /\ appState \in { [energyPlans |-> Arr(plans), currentPersona |-> Null,
                        isCustomized |-> FALSE, customUsagePattern |-> Null] :
                        plans \in EnergyPlanLists }
    /\ resultsTitle = Undefined
    /\ loadingDisplay = "none"
    /\ resultsDisplay = "none"
    /\ modalShown = FALSE
    /\ displayed = Undefined
    /\ timers = <<>>
    /\ lastClicked = Undefined
    /\ lastEvent = "none"
    /\ alert = "none"
    /\ resumedKey = Undefined
    /\ apiPlan = Undefined
    /\ SlidersIdle
    /\ PagingIdle
    /\ EngineIdle
    /\ pc = "app"

\* click on a persona button: handlePersonaSelection up to its await
PersonaClick ==
    /\ pc = "app"
    /\ ~modalShown
    /\ Len(timers) < MaxPending
    /\ \E personaKey \in PersonaKeys :
          /\ appState' = [appState EXCEPT !.currentPersona = Str(personaKey),
                                          !.isCustomized = FALSE,
                                          !.customUsagePattern = Null]
          /\ resultsTitle' = Str(personaKey)
          /\ timers' = Append(timers, [handler |-> "handlePersonaSelection",
                                        personaKey |-> Str(personaKey)])
          /\ lastClicked' = Str(personaKey)
    /\ loadingDisplay' = "block"
    /\ resultsDisplay' = "none"
    /\ lastEvent' = "personaClick"
    /\ UNCHANGED <<modalShown, displayed, alert, resumedKey, enginePageVars, sliderVars, pagingVars, engineVars>>

\* handlePersonaSelection after its delay: updateCalculationsDisplay, then
\* hideLoading, in the try block or in the catch block
PersonaResume ==
    /\ pc = "app"
    /\ \E i \in 1..Len(timers) :
          /\ MayResume(i)
          /\ timers[i].handler = "handlePersonaSelection"
          /\ timers' = WithoutTimer(i)
          /\ resumedKey' = timers[i].personaKey
          /\ IF updateCalculationsDisplayThrows(appState)
             THEN displayed' = displayed /\ alert' = "error"
             ELSE displayed' = DisplayOf(appState, timers[i]) /\ alert' = alert
    /\ loadingDisplay' = "none"
    /\ resultsDisplay' = "block"
    /\ lastEvent' = "personaResume"
    /\ UNCHANGED <<appState, resultsTitle, modalShown, lastClicked, enginePageVars, sliderVars,
                   pagingVars, engineVars>>

\* click on the customize button of the results section
CustomizeClick ==
    /\ pc = "app"
    /\ resultsDisplay = "block"
    /\ ~modalShown
    /\ modalShown' = TRUE
    /\ lastEvent' = "customizeClick"
    /\ UNCHANGED <<appState, resultsTitle, loadingDisplay, resultsDisplay, displayed, timers,
                   lastClicked, alert, resumedKey, enginePageVars, sliderVars, pagingVars, engineVars>>

\* click on Apply with a pattern that fails validation: showError, return
ApplyRejected ==
    /\ pc = "app"
    /\ modalShown
    /\ \E customPattern \in FormPatterns : ~PassesValidation(customPattern)
    /\ alert' = "error"
    /\ lastEvent' = "applyRejected"
    /\ UNCHANGED <<appState, resultsTitle, loadingDisplay, resultsDisplay, modalShown, displayed,
                   timers, lastClicked, resumedKey, enginePageVars, sliderVars, pagingVars, engineVars>>

\* click on Apply with a pattern that passes: handleCustomSettingsApply up
\* to its await
ApplyAccepted ==
    /\ pc = "app"
    /\ modalShown
    /\ Len(timers) < MaxPending
    /\ \E customPattern \in FormPatterns :
          /\ PassesValidation(customPattern)
          /\ appState' = [appState EXCEPT !.isCustomized = TRUE,
                                          !.customUsagePattern = customPattern]
    /\ modalShown' = FALSE
    /\ loadingDisplay' = "block"
    /\ resultsDisplay' = "none"
    /\ timers' = Append(timers, [handler |-> "handleCustomSettingsApply", personaKey |-> Undefined])
    /\ lastEvent' = "applyAccepted"
    /\ UNCHANGED <<resultsTitle, displayed, lastClicked, alert, resumedKey, enginePageVars, sliderVars,
                   pagingVars, engineVars>>

\* handleCustomSettingsApply after its delay: updateCalculationsDisplay,
\* hideLoading and showSuccess in the try block; the catch block only
\* shows the error
CustomResume ==
    /\ pc = "app"
    /\ \E i \in 1..Len(timers) :
          /\ MayResume(i)
          /\ timers[i].handler = "handleCustomSettingsApply"
          /\ timers' = WithoutTimer(i)
    /\ IF updateCalculationsDisplayThrows(appState)
       THEN /\ alert' = "error"
            /\ UNCHANGED <<displayed, loadingDisplay, resultsDisplay>>
       ELSE /\ displayed' = DisplayOf(appState, NoTimer)
            /\ loadingDisplay' = "none"
            /\ resultsDisplay' = "block"
            /\ alert' = "success"
    /\ lastEvent' = "customResume"
    /\ UNCHANGED <<appState, resultsTitle, modalShown, lastClicked, resumedKey, enginePageVars, sliderVars,
                   pagingVars, engineVars>>

\* click on a button that dismisses the modal: with a persona selected the
\* customization is dropped and updateCalculationsDisplay is called, its
\* rejection reaching the page's unhandledrejection handler
ModalDismiss ==
    /\ pc = "app"
    /\ modalShown
    /\ modalShown' = FALSE
    /\ IF Truthy(appState.currentPersona)
       THEN /\ appState' = [appState EXCEPT !.isCustomized = FALSE, !.customUsagePattern = Null]
            /\ IF updateCalculationsDisplayThrows(appState')
               THEN displayed' = displayed /\ alert' = "error"
               ELSE displayed' = DisplayOf(appState', NoTimer) /\ alert' = alert
       ELSE UNCHANGED <<appState, displayed, alert>>
    /\ lastEvent' = "modalDismiss"
    /\ UNCHANGED <<resultsTitle, loadingDisplay, resultsDisplay, timers, lastClicked,
                   resumedKey, enginePageVars, sliderVars, pagingVars, engineVars>>

NextApp ==
    \/ PersonaClick
    \/ PersonaResume
    \/ CustomizeClick
    \/ ApplyRejected
    \/ ApplyAccepted
    \/ CustomResume
    \/ ModalDismiss

SpecApp == InitApp /\ [][NextApp]_vars

\* the delay of a waiting handler of the given kind ends and the handler
\* leaves the timers: the step that PersonaResume and CustomResume take
TimerFires(handler) ==
    \E i \in 1..Len(timers) :
        /\ MayResume(i)
        /\ timers[i].handler = handler
        /\ timers' = WithoutTimer(i)

\* the browser runs every timer that is due, so a waiting handler resumes;
\* no click is ever required
SpecAppFair ==
    /\ SpecApp
    /\ WF_timers(TimerFires("handlePersonaSelection"))
    /\ WF_timers(TimerFires("handleCustomSettingsApply"))

----------------------------------------------------------------------------
(* Claim about the usage pattern of the settings form, checked under SpecInput *)

\* a field of the usage pattern is not a number
HasNaNField ==
    \E x \in {usagePattern.quarterlyConsumption, usagePattern.peakPercent,
               usagePattern.shoulderPercent, usagePattern.offPeakPercent,
               usagePattern.solarExport} : ~IsNumber(x)

\* C23: a usage pattern with a field that is not a number is rejected, so
\* calculatePlanCost returns null for it, and a breakdown that is returned
\* has a totalCost that is a number.
C23_NaNRejected ==
    pc = "done" =>
        /\ (HasNaNField => outcome = Null)
        /\ (outcome # Null => IsNumber(outcome.totalCost))

\* the part of C23 that the code keeps for the patterns of the form: the
\* totalCost of a breakdown returned is a number
C23_TotalIsNumber ==
    (pc = "done" /\ outcome # Null) => IsNumber(outcome.totalCost)

\* a breakdown returned for a form whose consumption was left empty
C23_NaNPriced ==
    /\ pc = "done" /\ outcome # Null
    /\ form.quarterlyConsumption = Blank
    /\ outcome.breakdown.usageCharge = Num(0)

----------------------------------------------------------------------------
(* Claim about extractTariffPeriods, checked under SpecExtract *)

\* the rates of the API plan after GST, as collected
ApiRates == CollectedRates(AllPeriods(OrEmpty(apiPlan.planData.contract)))

\* the API plan has exactly two rates, a higher and a lower one
TwoRatePlan == Len(ApiRates) = 2 /\ ApiRates[1] # ApiRates[2]

\* C24: the record of a plan with only a peak and an off-peak rate has the
\* higher rate as peak_cost and the lower as off_peak_cost, and
\* shouldDisqualifyPlan does not exclude it.
C24_TwoRateAccepted ==
    (pc = "checked" /\ TwoRatePlan) =>
        /\ planData.peak_cost = MathMax(ApiRates[1], ApiRates[2])
        /\ planData.off_peak_cost = MathMin(ApiRates[1], ApiRates[2])
        /\ outcome = Bool(FALSE)

\* the record of a plan with three rates is kept by shouldDisqualifyPlan
C24_ThreeRateAccepted ==
    (pc = "checked" /\ Len(ApiRates) = 3) => outcome = Bool(FALSE)

\* a two-rate plan whose lower rate was put in shoulder_cost and which
\* shouldDisqualifyPlan excluded
C24_TwoRateExcluded ==
    /\ pc = "checked" /\ TwoRatePlan
    /\ planData.shoulder_cost = Num(110) /\ planData.off_peak_cost = Null
    /\ outcome = Bool(TRUE)

----------------------------------------------------------------------------
(* Claim about missing reference figures, checked under SpecDiscount *)

\* the allDiscounts and the guaranteedDiscount figure are both in the
\* record's cost data
BothFiguresPresent ==
    /\ planData.pcrCosts # Undefined
    /\ IsNumber(planData.pcrCosts.allDiscounts)
    /\ IsNumber(planData.pcrCosts.guaranteedDiscount)

\* C25: a guaranteed discount is reported only for a record whose cost data
\* hold both the allDiscounts and the guaranteedDiscount figure.
C25_FiguresPresent ==
    (pc = "detected" /\ outcome.hasGuaranteedDiscount) => BothFiguresPresent

\* a record with discount terms and a noDiscounts figure only, reported
\* as guaranteed at a price of zero
C25_MissingAsZero ==
    /\ pc = "detected"
    /\ outcome.hasGuaranteedDiscount
    /\ planData.pcrCosts # Undefined
    /\ planData.pcrCosts.allDiscounts = Undefined
    /\ planData.pcrCosts.guaranteedDiscount = Undefined
    /\ outcome.guaranteedQuarterlyCost = Num(0)

----------------------------------------------------------------------------
(* Claim about adjustOtherPercentages, checked under SpecSliders *)

\* C26: after an input event the changed slider holds the value of the
\* event, each slider is within 0..100 and the three values sum to 100.
C26_SlidersSumTo100 ==
    changedInputId # Undefined =>
        /\ sliders[changedInputId.s] = changedValue.n
        /\ \A inputId \in percentageInputs : sliders[inputId] \in 0..100
        /\ sliders["peak-percent"] + sliders["shoulder-percent"] + sliders["offpeak-percent"] = 100

\* the shoulder slider was moved to 45 while the two others were at 0: the
\* odd remainder went to the first of them
C26_Witness ==
    /\ changedInputId = Str("shoulder-percent")
    /\ changedValue = Num(45)
    /\ sliders["peak-percent"] = 28
    /\ sliders["offpeak-percent"] = 27

\* the two other sliders were at 1 and 1 and share an odd remainder
C26_HalfwayWitness ==
    /\ changedInputId = Str("peak-percent")
    /\ changedValue = Num(75)
    /\ sliders["shoulder-percent"] = 12
    /\ sliders["offpeak-percent"] = 13

----------------------------------------------------------------------------
(* Claim about the pagination of ui.js, checked under SpecPages *)

\* max(1, ceil(number of plans / 10))
LastPage ==
    IF Len(allPlanCalculations) = 0 THEN 1
    ELSE (Len(allPlanCalculations) + 9) \div 10

\* the ten plans from (currentPage - 1) x 10 on, fewer at the end
ShownSlice ==
    [k \in 1..(IF Len(allPlanCalculations) - (currentPage - 1) * 10 >= 10 THEN 10
               ELSE IF Len(allPlanCalculations) - (currentPage - 1) * 10 <= 0 THEN 0
               ELSE Len(allPlanCalculations) - (currentPage - 1) * 10)
        |-> allPlanCalculations[(currentPage - 1) * 10 + k]]

\* C27: currentPage is within 1..max(1, ceil(plans / 10)) and the cards
\* shown are the slice of the ranking from (currentPage - 1) x 10 on.
C27_PageInRange ==
    /\ currentPage \in 1..LastPage
    /\ planCards = ShownSlice

\* C27, the steps: a new ranking is shown from page 1, and a step that
\* keeps the ranking either moves within 1..LastPage or changes nothing.
C27_PageSteps ==
    [][/\ (allPlanCalculations' # allPlanCalculations => currentPage' = 1)
       /\ (allPlanCalculations' = allPlanCalculations /\ currentPage' \notin 1..LastPage =>
               currentPage' = currentPage /\ planCards' = planCards)]_vars

\* the last, shorter page of a ranking of 25 is shown
C27_Witness ==
    /\ Len(allPlanCalculations) = 25
    /\ currentPage = 3
    /\ Len(planCards) = 5
    /\ planCards[1].rank = 21

\* a ranking of 25 is shown from its first page again
C27_StepsWitness ==
    /\ Len(allPlanCalculations) = 25
    /\ allPlanCalculations[1].persona = "couple"
    /\ currentPage = 1
    /\ Len(planCards) = 10

----------------------------------------------------------------------------
(* Claims about the main page controller, checked under SpecApp *)

\* isCustomized is set only beside a pattern that passed validateInputs
CustomizedIsValid ==
    appState.isCustomized =>
        appState.customUsagePattern # Null /\ validateInputs(appState.customUsagePattern)

\* a persona click or a dismissal of the modal leaves no customization
ResetBySelection ==
    lastEvent' \in {"personaClick", "modalDismiss"} =>
        ~appState'.isCustomized /\ appState'.customUsagePattern = Null

\* a rejected Apply leaves appState alone and starts no calculation
RejectedChangesNothing ==
    lastEvent' = "applyRejected" =>
        /\ appState' = appState
        /\ displayed' = displayed
        /\ timers' = timers
        /\ loadingDisplay' = loadingDisplay

C28_DismissWitness ==
    /\ lastEvent = "modalDismiss"
    /\ ~appState.isCustomized
    /\ displayed # Undefined
    /\ displayed.rankedCalculations =
           calculateAndRankPlans(appState.energyPlans.a, getPersonaConfig(appState.currentPersona.s))
    /\ alert = "success"

\* C29: every showLoading issued by a user action is eventually followed by
\* hideLoading, on the success path and when the calculation throws.
C29_LoadingEventuallyHidden ==
    (loadingDisplay = "block") ~> (loadingDisplay = "none")

\* the part of C29 that holds: the loading indicator shown by a persona
\* click is hidden when that handler resumes, whether or not the
\* calculation throws
C29_PersonaLoadingHidden ==
    /\ (lastEvent = "personaClick") ~> (loadingDisplay = "none")
    /\ [][lastEvent' = "personaResume" => loadingDisplay' = "none"]_vars

\* the state the custom settings handler leaves behind when the calculation
\* throws: the error is shown, no handler is pending, the loading indicator
\* is shown and the results section is hidden
C29_LoadingLeftShown ==
    /\ lastEvent = "customResume"
    /\ alert = "error"
    /\ timers = <<>>
    /\ loadingDisplay = "block"
    /\ resultsDisplay = "none"

\* the results of the persona clicked last: its title and the ranking of
\* its usage pattern
LatestPersonaResults ==
    [rankedCalculations |->
        calculateAndRankPlans(appState.energyPlans.a, getPersonaConfig(lastClicked.s)),
     personaKey |-> lastClicked]

\* no handler is pending after a persona click, no customization is in
\* force and the calculation for the current state returns a ranking
PersonaSettled ==
    /\ timers = <<>>
    /\ lastClicked # Undefined
    /\ ~appState.isCustomized
    /\ ~updateCalculationsDisplayThrows(appState)

\* every display made while no customization is in force shows the
\* persona clicked last, whichever handler makes it
DisplaysLatestPersona ==
    (displayed' # displayed /\ ~appState'.isCustomized) =>
        /\ displayed'.personaKey = lastClicked'
        /\ displayed'.rankedCalculations =
               calculateAndRankPlans(appState'.energyPlans.a, getPersonaConfig(lastClicked'.s))

C30_SettledWitness ==
    /\ lastEvent = "personaResume"
    /\ PersonaSettled
    /\ resumedKey = lastClicked
    /\ Len(displayed.rankedCalculations) = 2
    /\ loadingDisplay = "none"

====
